---- MODULE Spec2Model ----
(***************************************************************************)
(* Deck, GameState and Monte-Carlo simulator of the Slay the Spire         *)
(* statistical modeller (src/models/deck.py, src/models/card.py,           *)
(* src/models/game_state.py, src/stats/simulator.py), and its analytical   *)
(* estimators and relic modifiers (src/stats/probability.py).              *)
(*                                                                         *)
(* A list is a sequence whose LAST element is the end of the Python list:  *)
(* list.pop() takes it, list.append / list.extend add after it.            *)
(***************************************************************************)
EXTENDS Integers, Sequences, FiniteSets, TLC

VARIABLES
    cards0,      \* the card list the base Deck was constructed from
    decks,       \* heap of Deck objects: reference -> piles
    base_state,  \* Simulator.base_state / the caller's GameState
    state,       \* the GameState handed to the running scenario
    last,        \* the latest completed call: its arguments and what it returned
    call,        \* position of a Deck.draw call that is run pass by pass
    sim,         \* position of Simulator.run in its loop
    result,      \* the SimulationResult under construction
    returned,    \* the metrics maps the scenario returned, one per iteration
    played       \* the hands of the turns of a combat followed from its start

vars ==
    <<cards0, decks, base_state, state, last, call, sim, result, returned,
      played>>

----------------------------------------------------------------------------
(* Bounds of the model *)

\* largest number of cards a deck is constructed with or grown to
MaxDeck == 3

\* largest iteration count passed to Simulator.run
MaxRuns == 2

\* largest number of calls a scenario makes on the state it receives
MaxScenarioCalls == 2

\* largest value of the turn counter the driver advances to
MaxTurn == 2

\* largest number of cards of the deck a simulation starts from
MaxSimDeck == 2

\* largest number of direct SimulationResult.record calls
MaxRecords == 4

----------------------------------------------------------------------------
(* Cards *)

\* card.py: a frozen dataclass; name, character and cost are the fields the
\* model keeps.  The first two cards are two instances that compare equal
\* and differ in another field; the third shares their name only.
CardPool ==
    { [name |-> "Strike", character |-> "ironclad", cost |-> 1],
      [name |-> "Strike", character |-> "ironclad", cost |-> 0],
      [name |-> "Strike", character |-> "silent",   cost |-> 1] }

\* Card.__hash__: the hashed tuple
CardKey(c) == <<c.name, c.character>>

\* Mutant of CardEq: cards compared by name alone
CardEqByName(a, b) == a.name = b.name

\* Card.__eq__
CardEq(a, b) == <<a.name, a.character>> = <<b.name, b.character>>

----------------------------------------------------------------------------
(* Sequence helpers *)

Front(s) == SubSeq(s, 1, Len(s) - 1)

Last(s) == s[Len(s)]

Range(s) == {s[i] : i \in 1..Len(s)}

Min(a, b) == IF a <= b THEN a ELSE b

SeqsUpTo(S, n) == UNION {[1..k -> S] : k \in 0..n}

\* random.shuffle(list): every ordering of the same elements can come out
Shuffled(s) == {[i \in 1..Len(s) |-> s[p[i]]] : p \in Permutations(1..Len(s))}

\* list.index / the scan of `x in list` and list.remove: first equal element
RECURSIVE FirstEq(_, _, _)
FirstEq(pile, card, i) ==
    IF i > Len(pile) THEN 0
    ELSE IF CardEq(pile[i], card) THEN i
    ELSE FirstEq(pile, card, i + 1)

\* `card in pile`
Contains(pile, card) == FirstEq(pile, card, 1) # 0

\* pile.remove(card): deletes the first equal element
ListRemove(pile, card) ==
    LET i == FirstEq(pile, card, 1)
    IN  SubSeq(pile, 1, i - 1) \o SubSeq(pile, i + 1, Len(pile))

----------------------------------------------------------------------------
(* Deck (src/models/deck.py) *)

\* Deck.__init__
NewDeck(cards) ==
    [draw_pile |-> cards, discard_pile |-> <<>>, hand |-> <<>>]

\* Deck.shuffle: the decks it can leave
Shuffle(d) == {[d EXCEPT !.draw_pile = p] : p \in Shuffled(d.draw_pile)}

\* Mutant of PopTop: the top card is read and stays on the draw pile
PopTopKeep(e) == e

\* Mutant of PopTop: the card popped is laid on the discard pile as well
PopTopToDiscard(e) ==
    [e EXCEPT !.draw_pile = Front(@),
              !.discard_pile = Append(@, Last(e.draw_pile))]

\* One pass of the loop body of Deck.draw from deck e with a non-empty draw
\* pile: drawn.append(self._draw_pile.pop())
PopTop(e) == [e EXCEPT !.draw_pile = Front(@)]

\* Mutant of Refill: the discard pile is copied and not emptied
RefillKeepDiscard(d) ==
    IF d.draw_pile = <<>>
    THEN {[d EXCEPT !.draw_pile = p] : p \in Shuffled(d.discard_pile)}
    ELSE {d}

\* Deck.draw, lines 27-32: what the body does before it pops
Refill(d) ==
    IF d.draw_pile = <<>>
    THEN {[d EXCEPT !.draw_pile = p, !.discard_pile = <<>>] :
              p \in Shuffled(d.discard_pile)}
    ELSE {d}

\* Deck.draw, line 34: self._hand.extend(drawn)
ExtendHand(d, drawn) == [d EXCEPT !.hand = @ \o drawn]

\* Mutant of LoopOver: the break of line 29 is missing
LoopOverNoBreak(d, k) == k <= 0

\* Deck.draw, lines 26-29: the loop is left, because range(n) is used up or
\* by the break
LoopOver(d, k) ==
    k <= 0 \/ (d.draw_pile = <<>> /\ d.discard_pile = <<>>)

\* Deck.draw: the loop `for _ in range(n)` with k passes left and the local
\* list `drawn`.  The result is the set of outcomes [deck, ret, raised]:
\* list.pop() on an empty list raises IndexError, which leaves draw with the
\* piles as they are and the cards of `drawn` in no pile.
RECURSIVE DrawLoop(_, _, _)
DrawLoop(d, drawn, k) ==
    IF LoopOver(d, k)
    THEN {[deck |-> ExtendHand(d, drawn), ret |-> drawn, raised |-> FALSE]}
    ELSE UNION { IF e.draw_pile = <<>>
                 THEN {[deck |-> e, ret |-> <<>>, raised |-> TRUE]}
                 ELSE DrawLoop(PopTop(e), Append(drawn, Last(e.draw_pile)),
                               k - 1) :
                    e \in Refill(d) }

\* Mutant of Draw: the loop makes one pass more
DrawOneMore(d, n) == DrawLoop(d, <<>>, n + 1)

\* Deck.draw(n)
Draw(d, n) == DrawLoop(d, <<>>, n)

\* Mutant of DiscardHand: the hand replaces the discard pile
DiscardHandReplace(d) ==
    [d EXCEPT !.discard_pile = d.hand, !.hand = <<>>]

\* Mutant of DiscardHand: the hand is laid back on the draw pile
DiscardHandOnTop(d) ==
    [d EXCEPT !.draw_pile = @ \o d.hand, !.hand = <<>>]

\* Deck.discard_hand
DiscardHand(d) ==
    [d EXCEPT !.discard_pile = @ \o d.hand, !.hand = <<>>]

\* Deck.add
Add(d, card) == [d EXCEPT !.draw_pile = Append(@, card)]

\* Mutant of Remove: the draw pile is searched before the hand
RemoveDrawFirst(d, card) ==
    IF Contains(d.draw_pile, card)
    THEN [deck |-> [d EXCEPT !.draw_pile = ListRemove(@, card)], ret |-> TRUE]
    ELSE IF Contains(d.hand, card)
    THEN [deck |-> [d EXCEPT !.hand = ListRemove(@, card)], ret |-> TRUE]
    ELSE IF Contains(d.discard_pile, card)
    THEN [deck |-> [d EXCEPT !.discard_pile = ListRemove(@, card)], ret |-> TRUE]
    ELSE [deck |-> d, ret |-> FALSE]

\* Deck.remove: [deck, ret]
Remove(d, card) ==
    IF Contains(d.hand, card)
    THEN [deck |-> [d EXCEPT !.hand = ListRemove(@, card)], ret |-> TRUE]
    ELSE IF Contains(d.draw_pile, card)
    THEN [deck |-> [d EXCEPT !.draw_pile = ListRemove(@, card)], ret |-> TRUE]
    ELSE IF Contains(d.discard_pile, card)
    THEN [deck |-> [d EXCEPT !.discard_pile = ListRemove(@, card)], ret |-> TRUE]
    ELSE [deck |-> d, ret |-> FALSE]

\* Deck.total_cards
TotalCards(d) == Len(d.draw_pile) + Len(d.discard_pile) + Len(d.hand)

\* The list card_counts builds its Counter from
CountedList(d) == d.draw_pile \o d.discard_pile \o d.hand

\* Counter(list): one entry per distinct key in first-seen order; the entry
\* keeps the first instance seen as its key object.
RECURSIVE CounterOf(_, _, _)
CounterOf(list, i, acc) ==
    IF i > Len(list) THEN acc
    ELSE LET c == list[i]
             hit == {j \in 1..Len(acc) : CardEq(acc[j].card, c)}
         IN  IF hit = {}
             THEN CounterOf(list, i + 1, Append(acc, [card |-> c, count |-> 1]))
             ELSE LET j == CHOOSE j \in hit : TRUE
                  IN  CounterOf(list, i + 1,
                                [acc EXCEPT ![j].count = @ + 1])

\* Deck.card_counts
CardCounts(d) == CounterOf(CountedList(d), 1, <<>>)

\* Counter.get(card, 0) / Counter[card]
CounterGet(counter, card) ==
    LET hit == {j \in 1..Len(counter) : CardEq(counter[j].card, card)}
    IN  IF hit = {} THEN 0 ELSE counter[CHOOSE j \in hit : TRUE].count

----------------------------------------------------------------------------
(* GameState (src/models/game_state.py) *)

BASE_ENERGY == 3

DEFAULT_HP == 80

\* GameState(deck=...) with every other field at its default
NewGameState(ref) ==
    [character |-> "ironclad", deck |-> ref, turn |-> 0, hp |-> DEFAULT_HP,
     energy |-> BASE_ENERGY, max_energy |-> BASE_ENERGY, block |-> 0,
     act |-> 1, floor |-> 0, ascension |-> 0, max_hp |-> DEFAULT_HP,
     gold |-> 99, strength |-> 0, dexterity |-> 0, focus |-> 0, mantra |-> 0,
     stance |-> "NONE", orb_slots |-> 3, orbs |-> <<>>, relics |-> <<>>,
     potions |-> <<>>]

\* Mutant of NextTurn: the strength gained in the turn is lost with it
NextTurnLoseStrength(gs, d, hand_size) ==
    { [gs |-> [gs EXCEPT !.block = 0, !.energy = gs.max_energy,
                         !.turn = @ + 1, !.strength = 0],
       deck |-> o.deck, ret |-> o.ret, raised |-> o.raised] :
          o \in Draw(DiscardHand(d), hand_size) }

\* Mutant of NextTurn: the hand is discarded after the draw
NextTurnDiscardLast(gs, d, hand_size) ==
    { [gs |-> [gs EXCEPT !.block = 0,
                         !.energy = gs.max_energy,
                         !.turn = @ + 1],
       deck |-> DiscardHand(o.deck), ret |-> o.ret, raised |-> o.raised] :
          o \in Draw(d, hand_size) }

\* GameState.next_turn on state gs whose deck holds d: the outcomes
\* [gs, deck, ret, raised], ret being what self.deck.draw(hand_size)
\* returned; an exception of draw leaves next_turn after line 100.
NextTurn(gs, d, hand_size) ==
    { [gs |-> IF o.raised
              THEN [gs EXCEPT !.block = 0]
              ELSE [gs EXCEPT !.block = 0,
                              !.energy = gs.max_energy,
                              !.turn = @ + 1],
       deck |-> o.deck, ret |-> o.ret, raised |-> o.raised] :
          o \in Draw(DiscardHand(d), hand_size) }

----------------------------------------------------------------------------
(* SimulationResult and Simulator (src/stats/simulator.py) *)

MetricNames == {"strikes", "has_bash"}

MetricValues == {0, 1, 2}

\* every metrics map a scenario of the model returns to Simulator.run
ScenarioMetrics ==
    { [k \in {} |-> 0],
      [k \in {"strikes"} |-> 1],
      [k \in {"strikes", "has_bash"} |-> IF k = "strikes" THEN 2 ELSE 0] }

\* every metrics map handed to SimulationResult.record directly
RecordMetrics ==
    UNION { [K -> MetricValues] : K \in SUBSET MetricNames }
    \ { m \in UNION { [K -> MetricValues] : K \in SUBSET MetricNames } :
          "has_bash" \in DOMAIN m /\ m["has_bash"] = 2 }

\* SimulationResult()
NewResult == [runs |-> 0, outcomes |-> [k \in {} |-> <<>>]]

\* Mutant of Record: an empty metrics map is not counted
RecordSkipEmpty(r, metrics) ==
    IF DOMAIN metrics = {} THEN r
    ELSE [runs |-> r.runs + 1,
          outcomes |->
             [k \in DOMAIN r.outcomes \cup DOMAIN metrics |->
                 IF k \in DOMAIN metrics
                 THEN Append(IF k \in DOMAIN r.outcomes
                             THEN r.outcomes[k] ELSE <<>>, metrics[k])
                 ELSE r.outcomes[k]]]

\* SimulationResult.record
Record(r, metrics) ==
    [runs |-> r.runs + 1,
     outcomes |->
        [k \in DOMAIN r.outcomes \cup DOMAIN metrics |->
            IF k \in DOMAIN metrics
            THEN Append(IF k \in DOMAIN r.outcomes THEN r.outcomes[k] ELSE <<>>,
                        metrics[k])
            ELSE r.outcomes[k]]]

\* self.outcomes.get(key, [])
OutcomesGet(r, key) ==
    IF key \in DOMAIN r.outcomes THEN r.outcomes[key] ELSE <<>>

\* sorted(values): insertion of x into an ascending list, after its equals
RECURSIVE InsertSorted(_, _)
InsertSorted(s, x) ==
    IF s = <<>> THEN <<x>>
    ELSE IF x < s[1] THEN <<x>> \o s
    ELSE <<s[1]>> \o InsertSorted(Tail(s), x)

\* Mutant of Sorted: the values stay in the order they were recorded in
SortedNot(s) == s

RECURSIVE Sorted(_)
Sorted(s) ==
    IF s = <<>> THEN <<>> ELSE InsertSorted(Sorted(Front(s)), Last(s))

\* Mutant of Percentile: the index is taken within count - 1, which gives
\* the lower of the two middle values as the median of an even count
PercentileLowerRank(r, key, pct) ==
    LET values == Sorted(OutcomesGet(r, key))
    IN  IF values = <<>> THEN 0
        ELSE values[((Len(values) - 1) * pct) \div 100 + 1]

\* SimulationResult.percentile; pct is a whole number, so
\* int(len(values) * pct / 100) is the floor of the exact quotient.
Percentile(r, key, pct) ==
    LET values == Sorted(OutcomesGet(r, key))
    IN  IF values = <<>> THEN 0
        ELSE LET idx == (Len(values) * pct) \div 100
             IN  values[Min(idx, Len(values) - 1) + 1]

RECURSIVE Sum(_)
Sum(s) == IF s = <<>> THEN 0 ELSE s[1] + Sum(Tail(s))

\* SimulationResult.mean, as the fraction num / den
Mean(r, key) ==
    LET values == OutcomesGet(r, key)
    IN  IF values = <<>> THEN [num |-> 0, den |-> 1]
        ELSE [num |-> Sum(values), den |-> Len(values)]

\* SimulationResult.summary
Summary(r) ==
    [k \in DOMAIN r.outcomes |->
        [mean   |-> Mean(r, k),
         min    |-> Percentile(r, k, 0),
         p25    |-> Percentile(r, k, 25),
         median |-> Percentile(r, k, 50),
         p75    |-> Percentile(r, k, 75),
         max    |-> Percentile(r, k, 100)]]

\* Mutant of DeepCopyRef: copy.copy, whose copy shares the Deck object
ShallowCopyRef(gs) == gs.deck

\* copy.deepcopy(self.base_state): the reference of the copy's Deck object,
\* a Deck of its own
DeepCopyRef(gs) == "clone"

----------------------------------------------------------------------------
(* Inputs *)

\* the n of Deck.draw(n) and the hand_size of next_turn(hand_size)
DrawCounts == -1 .. (MaxDeck + 1)

\* cards of the decks simulations start from
SimCards ==
    { [name |-> "Strike", character |-> "ironclad", cost |-> 1],
      [name |-> "Defend", character |-> "ironclad", cost |-> 1] }

SimHandSizes == 0 .. (MaxSimDeck + 1)

NoCard == [name |-> "none", character |-> "none", cost |-> 0]

\* A GameState in the middle of a combat: every field next_turn writes
\* differs from what next_turn writes, and every other field from its
\* default.
MidCombat(ref) ==
    [NewGameState(ref) EXCEPT !.turn = 1, !.hp = 70, !.energy = 1,
                              !.max_energy = 4, !.block = 5,
                              !.act = 2, !.floor = 20, !.ascension = 5,
                              !.max_hp = 75, !.gold = 150, !.strength = 2,
                              !.dexterity = 1, !.focus = 1, !.mantra = 3,
                              !.stance = "WRATH", !.orb_slots = 1,
                              !.orbs = <<"LIGHTNING">>,
                              !.relics = <<"Vajra">>,
                              !.potions = <<"Fire Potion">>]

\* no combat is followed
NoTurns == [hand_size |-> 0, turns |-> <<>>]

NoState == [NewGameState("none") EXCEPT !.character = "none"]

EmptyDeck == NewDeck(<<>>)

SimIdle == [pc |-> "idle", iterations |-> 0, i |-> 0, calls |-> 0]

\* the record of a completed call: n and card are its arguments, ret the
\* list and ok the truth value it returned, raised whether it ended in an
\* exception instead
Call(op, n, card, ret, ok, raised) ==
    [op |-> op, n |-> n, card |-> card, ret |-> ret, ok |-> ok,
     raised |-> raised]

NoCall == Call("none", 0, NoCard, <<>>, FALSE, FALSE)

\* refills counts the passes of the running call that took lines 30-32
CallIdle == [pc |-> "idle", n |-> 0, left |-> 0, drawn |-> <<>>, refills |-> 0]

\* no call is under way
Idle == sim.pc = "idle" /\ call.pc = "idle"

\* the caller's Deck object
BaseDeck == decks[base_state.deck]

----------------------------------------------------------------------------
(* Calls of the caller on its own GameState and Deck *)

DeckShuffle ==
    /\ Idle
    /\ \E d2 \in Shuffle(BaseDeck) :
          /\ decks' = [decks EXCEPT ![base_state.deck] = d2]
          /\ last' = Call("shuffle", 0, NoCard, <<>>, FALSE, FALSE)
    /\ UNCHANGED <<cards0, base_state, state, call, sim, result, returned,
                   played>>

DeckDraw ==
    /\ Idle
    /\ \E n \in DrawCounts : \E o \in Draw(BaseDeck, n) :
          /\ decks' = [decks EXCEPT ![base_state.deck] = o.deck]
          /\ last' = Call("draw", n, NoCard, o.ret, FALSE, o.raised)
    /\ UNCHANGED <<cards0, base_state, state, call, sim, result, returned,
                   played>>

DeckDiscardHand ==
    /\ Idle
    /\ decks' = [decks EXCEPT ![base_state.deck] = DiscardHand(BaseDeck)]
    /\ last' = Call("discard_hand", 0, NoCard, <<>>, FALSE, FALSE)
    /\ UNCHANGED <<cards0, base_state, state, call, sim, result, returned,
                   played>>

DeckAdd ==
    /\ Idle
    /\ TotalCards(BaseDeck) < MaxDeck
    /\ \E c \in CardPool :
          /\ decks' = [decks EXCEPT ![base_state.deck] = Add(BaseDeck, c)]
          /\ last' = Call("add", 0, c, <<>>, FALSE, FALSE)
    /\ UNCHANGED <<cards0, base_state, state, call, sim, result, returned,
                   played>>

DeckRemove ==
    /\ Idle
    /\ \E c \in CardPool :
          LET o == Remove(BaseDeck, c)
          IN  /\ decks' = [decks EXCEPT ![base_state.deck] = o.deck]
              /\ last' = Call("remove", 0, c, <<>>, o.ret, FALSE)
    /\ UNCHANGED <<cards0, base_state, state, call, sim, result, returned,
                   played>>

GameNextTurn ==
    /\ Idle
    /\ base_state.turn < MaxTurn
    /\ \E h \in DrawCounts : \E o \in NextTurn(base_state, BaseDeck, h) :
          /\ decks' = [decks EXCEPT ![base_state.deck] = o.deck]
          /\ base_state' = o.gs
          /\ last' = Call("next_turn", h, NoCard, o.ret, FALSE, o.raised)
    /\ UNCHANGED <<cards0, state, call, sim, result, returned,
                   played>>

----------------------------------------------------------------------------
(* Deck.draw(n) on the caller's Deck, one pass of its loop at a time *)

\* draw(n) is entered: drawn = []
DrawEnter ==
    /\ Idle
    /\ \E n \in DrawCounts :
          call' = [pc |-> "loop", n |-> n, left |-> n, drawn |-> <<>>,
                   refills |-> 0]
    /\ UNCHANGED <<cards0, decks, base_state, state, last, sim, result, returned,
                   played>>

\* one pass of the loop body
DrawPass ==
    /\ call.pc = "loop"
    /\ ~LoopOver(BaseDeck, call.left)
    /\ \E e \in Refill(BaseDeck) :
          IF e.draw_pile = <<>>
          THEN /\ decks' = [decks EXCEPT ![base_state.deck] = e]
               /\ call' = CallIdle
               /\ last' = Call("draw", call.n, NoCard, <<>>, FALSE, TRUE)
          ELSE /\ decks' = [decks EXCEPT ![base_state.deck] = PopTop(e)]
               /\ call' = [call EXCEPT
                              !.left = @ - 1,
                              !.drawn = Append(@, Last(e.draw_pile)),
                              !.refills = IF BaseDeck.draw_pile = <<>>
                                          THEN @ + 1 ELSE @]
               /\ UNCHANGED last
    /\ UNCHANGED <<cards0, base_state, state, sim, result, returned,
                   played>>

\* the loop is left: self._hand.extend(drawn); return drawn
DrawExit ==
    /\ call.pc = "loop"
    /\ LoopOver(BaseDeck, call.left)
    /\ decks' = [decks EXCEPT
                    ![base_state.deck] = ExtendHand(BaseDeck, call.drawn)]
    /\ last' = Call("draw", call.n, NoCard, call.drawn, FALSE, FALSE)
    /\ call' = CallIdle
    /\ UNCHANGED <<cards0, base_state, state, sim, result, returned,
                   played>>

----------------------------------------------------------------------------
(* Simulator.run(scenario, iterations) *)

\* run is entered: result = SimulationResult()
SimRun ==
    /\ Idle
    /\ \E k \in 0..MaxRuns :
          sim' = [pc |-> "loop", iterations |-> k, i |-> 0, calls |-> 0]
    /\ result' = NewResult
    /\ returned' = <<>>
    /\ UNCHANGED <<cards0, decks, base_state, state, last, call,
                   played>>

\* one pass of the loop up to the call of the scenario:
\* state = copy.deepcopy(self.base_state); state.deck.shuffle()
SimIterate ==
    /\ sim.pc = "loop"
    /\ sim.i < sim.iterations
    /\ LET ref == DeepCopyRef(base_state)
           copied == [decks EXCEPT ![ref] = decks[base_state.deck]]
       IN  \E d2 \in Shuffle(copied[ref]) :
              /\ decks' = [copied EXCEPT ![ref] = d2]
              /\ state' = [base_state EXCEPT !.deck = ref]
    /\ sim' = [sim EXCEPT !.pc = "scenario", !.calls = 0]
    /\ UNCHANGED <<cards0, base_state, last, call, result, returned,
                   played>>

\* the scenario calls next_turn on the state it received
ScenarioNextTurn ==
    /\ sim.pc = "scenario"
    /\ sim.calls < MaxScenarioCalls
    /\ \E h \in SimHandSizes : \E o \in NextTurn(state, decks[state.deck], h) :
          /\ decks' = [decks EXCEPT ![state.deck] = o.deck]
          /\ state' = [o.gs EXCEPT !.deck = state.deck]
    /\ sim' = [sim EXCEPT !.calls = @ + 1]
    /\ UNCHANGED <<cards0, base_state, last, call, result, returned,
                   played>>

\* the scenario adds a card to the deck of the state it received
ScenarioAdd ==
    /\ sim.pc = "scenario"
    /\ sim.calls < MaxScenarioCalls
    /\ TotalCards(decks[state.deck]) <= MaxSimDeck
    /\ \E c \in SimCards :
          decks' = [decks EXCEPT ![state.deck] = Add(decks[state.deck], c)]
    /\ sim' = [sim EXCEPT !.calls = @ + 1]
    /\ UNCHANGED <<cards0, base_state, state, last, call, result, returned,
                   played>>

\* the scenario returns its metrics; result.record(metrics) ends the pass
ScenarioReturn ==
    /\ sim.pc = "scenario"
    /\ \E m \in ScenarioMetrics :
          /\ result' = Record(result, m)
          /\ returned' = Append(returned, m)
    /\ sim' = [sim EXCEPT !.pc = "loop", !.i = @ + 1]
    /\ UNCHANGED <<cards0, decks, base_state, state, last, call,
                   played>>

\* the loop is over: return result
SimReturn ==
    /\ sim.pc = "loop"
    /\ sim.i >= sim.iterations
    /\ sim' = [sim EXCEPT !.pc = "done"]
    /\ UNCHANGED <<cards0, decks, base_state, state, last, call, result, returned,
                   played>>

\* SimulationResult.record called on a result directly
ResultRecord ==
    /\ Idle
    /\ result.runs < MaxRecords
    /\ \E m \in RecordMetrics :
          /\ result' = Record(result, m)
          /\ returned' = Append(returned, m)
    /\ UNCHANGED <<cards0, decks, base_state, state, last, call, sim,
                   played>>

----------------------------------------------------------------------------
(* Specifications *)

\* A deck as constructed, with a GameState of defaults around it
InitDeck ==
    /\ cards0 \in SeqsUpTo(CardPool, MaxDeck)
    /\ decks = [base |-> NewDeck(cards0), clone |-> EmptyDeck]
    /\ base_state = NewGameState("base")
    /\ state = NoState
    /\ last = NoCall
    /\ call = CallIdle
    /\ sim = SimIdle
    /\ result = NewResult
    /\ returned = <<>>
    /\ played = NoTurns

\* Deck() in a GameState of defaults or in mid-combat; add builds every deck
\* of at most MaxDeck cards from it
Init ==
    /\ cards0 = <<>>
    /\ decks = [base |-> NewDeck(cards0), clone |-> EmptyDeck]
    /\ base_state \in {NewGameState("base"), MidCombat("base")}
    /\ state = NoState
    /\ last = NoCall
    /\ call = CallIdle
    /\ sim = SimIdle
    /\ result = NewResult
    /\ returned = <<>>
    /\ played = NoTurns

\* A Simulator around a GameState in mid-combat whose deck has been played
InitSim ==
    /\ \E dp, dc, h \in SeqsUpTo(SimCards, MaxSimDeck) :
          /\ Len(dp) + Len(dc) + Len(h) <= MaxSimDeck
          /\ cards0 = dp \o dc \o h
          /\ decks = [base |-> [draw_pile |-> dp, discard_pile |-> dc,
                                hand |-> h],
                      clone |-> EmptyDeck]
    /\ base_state = MidCombat("base")
    /\ state = NoState
    /\ last = NoCall
    /\ call = CallIdle
    /\ sim = SimIdle
    /\ result = NewResult
    /\ returned = <<>>
    /\ played = NoTurns

\* A fresh SimulationResult
InitResult ==
    /\ cards0 = <<>>
    /\ decks = [base |-> EmptyDeck, clone |-> EmptyDeck]
    /\ base_state = NewGameState("base")
    /\ state = NoState
    /\ last = NoCall
    /\ call = CallIdle
    /\ sim = SimIdle
    /\ result = NewResult
    /\ returned = <<>>
    /\ played = NoTurns

NextDeck == DeckShuffle \/ DeckDraw \/ DeckDiscardHand

Next ==
    \/ DeckShuffle
    \/ DeckDraw
    \/ DeckDiscardHand
    \/ DeckAdd
    \/ DeckRemove
    \/ GameNextTurn

NextSteps ==
    \/ DeckShuffle
    \/ DeckDiscardHand
    \/ DrawEnter
    \/ DrawPass
    \/ DrawExit

NextSim ==
    \/ SimRun
    \/ SimIterate
    \/ ScenarioNextTurn
    \/ ScenarioAdd
    \/ ScenarioReturn
    \/ SimReturn

NextResult == ResultRecord

\* shuffle, draw and discard_hand alone
SpecDeck == InitDeck /\ [][NextDeck]_vars

\* every call on the Deck and the GameState
Spec == Init /\ [][Next]_vars

\* shuffle and discard_hand, and draw run pass by pass
SpecSteps == InitDeck /\ [][NextSteps]_vars

\* Simulator.run
SpecSim == InitSim /\ [][NextSim]_vars

\* SimulationResult.record
SpecResult == InitResult /\ [][NextResult]_vars

----------------------------------------------------------------------------
(* Vocabulary of the properties *)

\* a and b have the same name and the same character
SameKey(a, b) == a.name = b.name /\ a.character = b.character

\* number of cards of the pile with the key of c
CopiesIn(pile, c) == Cardinality({i \in 1..Len(pile) : SameKey(pile[i], c)})

\* number of places of the pile that hold exactly x
Occurrences(pile, x) == Cardinality({i \in 1..Len(pile) : pile[i] = x})

\* s and t hold the same cards, in any order
SameCards(s, t) ==
    /\ Len(s) = Len(t)
    /\ \A x \in Range(s) \cup Range(t) : Occurrences(s, x) = Occurrences(t, x)

\* the pile without its i-th card
WithoutAt(pile, i) == SubSeq(pile, 1, i - 1) \o SubSeq(pile, i + 1, Len(pile))

\* the places of the pile that hold a card with the key of c
Matches(pile, c) == {i \in 1..Len(pile) : SameKey(pile[i], c)}

\* the least element of a non-empty set of numbers
Least(S) == CHOOSE i \in S : \A j \in S : i <= j

RECURSIVE SumCounts(_)
SumCounts(counter) ==
    IF counter = <<>> THEN 0 ELSE counter[1].count + SumCounts(Tail(counter))

----------------------------------------------------------------------------
(* Deck: shuffle, draw, discard_hand (SpecDeck) *)

\* C1: under shuffle(), draw(n) and discard_hand() alone, total_cards equals
\* the number of cards the deck was constructed with in every reachable state.
C1_TotalCardsConstant == TotalCards(BaseDeck) = Len(cards0)

\* C1 witness: after a draw, all three piles hold cards.
C1_Witness ==
    /\ last.op = "draw"
    /\ BaseDeck.draw_pile # <<>>
    /\ BaseDeck.discard_pile # <<>>
    /\ BaseDeck.hand # <<>>

\* C2: card_counts() gives for every key the number of copies summed over the
\* three piles, its counts sum to total_cards, and under shuffle(), draw(n)
\* and discard_hand() the count of every key stays what it was at construction.
C2_CardCounts ==
    LET counter == CardCounts(BaseDeck)
    IN  /\ \A c \in CardPool :
              CounterGet(counter, c) =
                  CopiesIn(BaseDeck.draw_pile, c)
                  + CopiesIn(BaseDeck.discard_pile, c)
                  + CopiesIn(BaseDeck.hand, c)
        /\ SumCounts(counter) = TotalCards(BaseDeck)
        /\ \A c \in CardPool : CounterGet(counter, c) = CopiesIn(cards0, c)

\* C2 witness: copies of one key lie in the hand and in the discard pile while
\* a card of the same name and another character lies in the draw pile.
C2_Witness ==
    \E c, x \in CardPool :
        /\ c.name = x.name /\ c.character # x.character
        /\ CopiesIn(BaseDeck.hand, c) > 0
        /\ CopiesIn(BaseDeck.discard_pile, c) > 0
        /\ CopiesIn(BaseDeck.draw_pile, x) > 0
        /\ last.op = "draw"

\* C3: draw(n) with n >= 0 raises nothing, returns exactly
\* min(n, |draw pile| + |discard pile|) cards (sizes before the call), the hand
\* grows by exactly the returned cards, and with both piles empty it returns
\* the empty list and changes nothing.
C3_DrawNeverFails ==
    [][ (last'.op = "draw" /\ last'.n >= 0) =>
           LET d == BaseDeck
               avail == Len(d.draw_pile) + Len(d.discard_pile)
           IN  /\ ~last'.raised
               /\ Len(last'.ret) = Min(last'.n, avail)
               /\ BaseDeck'.hand = d.hand \o last'.ret
               /\ (avail = 0 => last'.ret = <<>> /\ BaseDeck' = d) ]_vars

\* C3 witness: a draw into a hand that held cards returned cards, and fewer
\* than requested.
C3_Witness ==
    /\ last.op = "draw"
    /\ last.ret # <<>>
    /\ Len(last.ret) < last.n
    /\ Len(BaseDeck.hand) > Len(last.ret)
    /\ BaseDeck.draw_pile = <<>> /\ BaseDeck.discard_pile = <<>>

\* C8: discard_hand() appends the hand to the discard pile and empties the
\* hand; the draw pile and the earlier content of the discard pile stay, and
\* on an empty hand it changes nothing.
C8_DiscardHand ==
    [][ last'.op = "discard_hand" =>
           LET d == BaseDeck
               e == BaseDeck'
           IN  /\ e.discard_pile = d.discard_pile \o d.hand
               /\ e.hand = <<>>
               /\ e.draw_pile = d.draw_pile
               /\ (d.hand = <<>> => e = d) ]_vars

\* C8 witness: after discard_hand the discard pile holds two cards and the
\* draw pile holds one.
C8_Witness ==
    /\ last.op = "discard_hand"
    /\ Len(BaseDeck.discard_pile) >= 2
    /\ BaseDeck.draw_pile # <<>>
    /\ BaseDeck.hand = <<>>

----------------------------------------------------------------------------
(* Deck.draw pass by pass (SpecSteps) *)

\* C4: a step empties the discard pile exactly when it is a pass of draw's
\* loop that starts with the draw pile empty and the discard pile not; that
\* pass turns the whole discard pile, in some order, into the draw pile and
\* draws its top card, leaving the hand and the cards drawn earlier alone.
\* Every other pass takes the top of the draw pile and leaves the discard
\* pile alone, and leaving the loop reshuffles nothing.
C4_ReshuffleTrigger ==
    [][ LET d == BaseDeck
            e == BaseDeck'
            emptied == d.discard_pile # <<>> /\ e.discard_pile = <<>>
            due == /\ call.pc = "loop" /\ call.left > 0
                   /\ d.draw_pile = <<>> /\ d.discard_pile # <<>>
        IN  /\ emptied <=> due
            /\ due =>
                  /\ call'.pc = "loop" /\ call'.left = call.left - 1
                  /\ Front(call'.drawn) = call.drawn
                  /\ SameCards(Append(e.draw_pile, Last(call'.drawn)),
                               d.discard_pile)
                  /\ e.hand = d.hand
            /\ (call.pc = "loop" /\ call'.pc = "loop" /\ ~due) =>
                  /\ e.draw_pile = Front(d.draw_pile)
                  /\ call'.drawn = Append(call.drawn, Last(d.draw_pile))
                  /\ e.discard_pile = d.discard_pile
                  /\ e.hand = d.hand
            /\ (call.pc = "loop" /\ call'.pc = "idle") =>
                  /\ e.draw_pile = d.draw_pile
                  /\ e.discard_pile = d.discard_pile ]_vars

\* C4 witness: in a running draw with a card in the hand, one pass took a
\* card from the draw pile and a later pass refilled it from the discard pile.
C4_Witness ==
    /\ call.pc = "loop"
    /\ call.refills = 1
    /\ Len(call.drawn) >= 2
    /\ BaseDeck.hand # <<>>

----------------------------------------------------------------------------
(* Deck.remove and GameState.next_turn (Spec) *)

\* C5: next_turn(hand_size) raises nothing, sets block to 0 and energy to
\* max_energy, adds 1 to turn, and leaves as the hand exactly the cards its
\* draw returned: min(hand_size, total_cards) of them for hand_size >= 0.
\* The previous hand went to the discard pile first: it lies there, after
\* the earlier discards, when the draw pile alone covered the draw, and the
\* discard pile is empty when it did not.
C5_NextTurn ==
    [][ last'.op = "next_turn" =>
           LET d == BaseDeck
               e == BaseDeck'
               h == last'.n
           IN  /\ ~last'.raised
               /\ base_state'.block = 0
               /\ base_state'.energy = base_state.max_energy
               /\ base_state'.max_energy = base_state.max_energy
               /\ base_state'.turn = base_state.turn + 1
               /\ e.hand = last'.ret
               /\ h >= 0 => Len(e.hand) = Min(h, TotalCards(d))
               /\ SameCards(CountedList(e), CountedList(d))
               /\ Len(d.draw_pile) >= h =>
                     e.discard_pile = d.discard_pile \o d.hand
               /\ Len(d.draw_pile) < h => e.discard_pile = <<>> ]_vars

\* C5 witness: a next_turn in mid-combat drew two cards and left discards.
C5_Witness ==
    /\ last.op = "next_turn"
    /\ last.n = 2
    /\ base_state.max_energy # BASE_ENERGY
    /\ Len(BaseDeck.hand) = 2
    /\ BaseDeck.discard_pile # <<>>

\* C9: remove(card) takes the first card with card's name and character out of
\* the hand, or else out of the draw pile, or else out of the discard pile,
\* returns true and lowers total_cards by 1; when no pile holds such a card it
\* returns false and leaves the three piles as they are.
C9_Remove ==
    [][ last'.op = "remove" =>
           LET d == BaseDeck
               e == BaseDeck'
               c == last'.card
               inHand == Matches(d.hand, c)
               inDraw == Matches(d.draw_pile, c)
               inDiscard == Matches(d.discard_pile, c)
           IN  /\ ~last'.raised
               /\ IF inHand # {}
                  THEN /\ last'.ok
                       /\ e = [d EXCEPT !.hand = WithoutAt(@, Least(inHand))]
                  ELSE IF inDraw # {}
                  THEN /\ last'.ok
                       /\ e = [d EXCEPT
                                 !.draw_pile = WithoutAt(@, Least(inDraw))]
                  ELSE IF inDiscard # {}
                  THEN /\ last'.ok
                       /\ e = [d EXCEPT
                                 !.discard_pile = WithoutAt(@, Least(inDiscard))]
                  ELSE ~last'.ok /\ e = d
               /\ last'.ok => TotalCards(e) = TotalCards(d) - 1 ]_vars

\* C9 witness: a remove succeeded while the draw pile and the discard pile
\* still hold cards equal to its argument, one of them another instance.
C9_Witness ==
    /\ last.op = "remove"
    /\ last.ok
    /\ Matches(BaseDeck.draw_pile, last.card) # {}
    /\ Matches(BaseDeck.discard_pile, last.card) # {}
    /\ \E i \in 1..Len(BaseDeck.draw_pile) :
          /\ SameKey(BaseDeck.draw_pile[i], last.card)
          /\ BaseDeck.draw_pile[i] # last.card

----------------------------------------------------------------------------
(* Simulator.run (SpecSim) *)

\* the values the maps of log give for key, in the order of log
RECURSIVE Collected(_, _)
Collected(log, key) ==
    IF log = <<>> THEN <<>>
    ELSE IF key \in DOMAIN Last(log)
         THEN Append(Collected(Front(log), key), Last(log)[key])
         ELSE Collected(Front(log), key)

\* C6: no step of Simulator.run changes the base GameState or its Deck, and
\* the state a pass hands to the scenario has the fields, the hand and the
\* discard pile of the base state and a draw pile of the same cards.
C6_BaseUntouched ==
    [][ /\ base_state' = base_state
        /\ decks'[base_state.deck] = decks[base_state.deck]
        /\ (sim.pc = "loop" /\ sim'.pc = "scenario") =>
              LET b == decks[base_state.deck]
                  c == decks'[state'.deck]
              IN  /\ [state' EXCEPT !.deck = base_state.deck] = base_state
                  /\ c.hand = b.hand
                  /\ c.discard_pile = b.discard_pile
                  /\ SameCards(c.draw_pile, b.draw_pile) ]_vars

\* C6 witness: a run of two passes is over, its last scenario advanced the
\* turn and left a hand other than the base state's, which is not empty.
C6_Witness ==
    /\ sim.pc = "done"
    /\ sim.iterations >= 2
    /\ state.turn > base_state.turn
    /\ BaseDeck.hand # <<>>
    /\ decks[state.deck].hand # BaseDeck.hand

\* C7: runs counts every recorded map, the empty one too; when run is over
\* runs equals the iteration count; and for every metric name the collected
\* list is the values the scenarios returned for it, in iteration order.
C7_RunsAndOutcomes ==
    /\ result.runs = Len(returned)
    /\ sim.pc = "done" => result.runs = sim.iterations
    /\ \A k \in MetricNames : OutcomesGet(result, k) = Collected(returned, k)
    /\ DOMAIN result.outcomes =
          {k \in MetricNames : Collected(returned, k) # <<>>}

\* C7 witness: a run of two passes is over whose first scenario returned the
\* empty map and whose second returned two metrics.
C7_Witness ==
    /\ sim.pc = "done"
    /\ Len(returned) = 2
    /\ DOMAIN returned[1] = {}
    /\ DOMAIN returned[2] = MetricNames

----------------------------------------------------------------------------
(* SimulationResult.summary (SpecResult) *)

\* C10: for every metric with recorded values, summary() gives
\* min <= p25 <= median <= p75 <= max, min the smallest and max the largest
\* recorded value.
C10_PercentilesOrdered ==
    \A k \in DOMAIN result.outcomes :
        LET s == Summary(result)[k]
            v == result.outcomes[k]
        IN  /\ v # <<>>
            /\ s.min <= s.p25 /\ s.p25 <= s.median
            /\ s.median <= s.p75 /\ s.p75 <= s.max
            /\ \A i \in 1..Len(v) : s.min <= v[i] /\ v[i] <= s.max
            /\ \E i \in 1..Len(v) : v[i] = s.min
            /\ \E i \in 1..Len(v) : v[i] = s.max

\* C10 witness: four values recorded out of order, with min < p25 < median.
C10_Witness ==
    \E k \in DOMAIN result.outcomes :
        LET s == Summary(result)[k]
            v == result.outcomes[k]
        IN  /\ Len(v) = 4
            /\ v[1] > v[4]
            /\ s.min < s.p25 /\ s.p25 < s.median

----------------------------------------------------------------------------
(* Numbers of the estimators (src/stats/probability.py)                    *)
(*                                                                         *)
(* The estimators compute with Python floats.  The model computes the same *)
(* expressions exactly, on fractions num / den with den > 0 in lowest      *)
(* terms, so that equal values are equal records.                          *)

\* largest number of cards of the decks the estimators are asked about
MaxEstDeck == 2

\* largest number of cards of the decks that are shuffled and drawn from
\* between two estimates
MaxPlayedDeck == 2

\* largest number of relics handed to get_relic_combat_modifiers
MaxRelics == 3

Abs(x) == IF x < 0 THEN -x ELSE x

RECURSIVE GCD(_, _)
GCD(a, b) == IF b = 0 THEN a ELSE GCD(b, a % b)

\* the fraction n / d, d # 0
Frac(n, d) ==
    LET g == GCD(Abs(n), Abs(d))
        s == IF d < 0 THEN -1 ELSE 1
    IN  [num |-> (s * n) \div g, den |-> (s * d) \div g]

FInt(n) == [num |-> n, den |-> 1]

Zero == FInt(0)

One == FInt(1)

FAdd(a, b) == Frac(a.num * b.den + b.num * a.den, a.den * b.den)

FSub(a, b) == Frac(a.num * b.den - b.num * a.den, a.den * b.den)

FMul(a, b) == Frac(a.num * b.num, a.den * b.den)

\* a / b, b # 0
FDiv(a, b) == Frac(a.num * b.den, a.den * b.num)

FLe(a, b) == a.num * b.den <= b.num * a.den

FLt(a, b) == a.num * b.den < b.num * a.den

FMin(a, b) == IF FLe(a, b) THEN a ELSE b

FMax(a, b) == IF FLe(a, b) THEN b ELSE a

\* math.comb(n, k) for n >= 0 and k >= 0
RECURSIVE Comb(_, _)
Comb(n, k) ==
    IF k > n THEN 0
    ELSE IF k = 0 THEN 1
    ELSE (Comb(n - 1, k - 1) * n) \div k

\* math.comb(n, k) raises ValueError on a negative argument
CombRaises(n, k) == n < 0 \/ k < 0

----------------------------------------------------------------------------
(* Values of an effects dict (card.py line 39, relic.py line 26)           *)

\* A value is an int, a float, a bool or a str; num / den is the number an
\* int, a float or a bool stands for (True is 1) and the length of a str.
IntV(n) == [kind |-> "int", num |-> n, den |-> 1]

FloatV(n, d) == [kind |-> "float", num |-> n, den |-> d]

BoolV(b) == [kind |-> "bool", num |-> IF b THEN 1 ELSE 0, den |-> 1]

StrV == [kind |-> "str", num |-> 1, den |-> 1]

\* None, what dict.get(key) gives for a key the dict does not hold
NoneV == [kind |-> "none", num |-> 0, den |-> 1]

\* dict.get(key, default)
Get(e, key, default) == IF key \in DOMAIN e THEN e[key] ELSE default

\* isinstance(v, (int, float)): a bool is an int
IsNumber(v) == v.kind \in {"int", "float", "bool"}

\* isinstance(v, int)
IsInt(v) == v.kind \in {"int", "bool"}

\* the truth value of v in `if v:`
Truthy(v) == v.kind # "none" /\ v.num # 0

\* the number v stands for
Number(v) == [num |-> v.num, den |-> v.den]

\* {}: the dict without keys
NoEffects == [k \in {} |-> NoneV]

----------------------------------------------------------------------------
(* Cards of the estimated decks *)

EstCard(name, card_type, cost, effects) ==
    [name |-> name, character |-> "ironclad", card_type |-> card_type,
     cost |-> cost, effects |-> effects]

Strike == EstCard("Strike", "ATTACK", 1, [damage |-> IntV(6)])

Defend == EstCard("Defend", "SKILL", 1, [block |-> IntV(5)])

Bash == EstCard("Bash", "ATTACK", 2, [damage |-> IntV(8)])

\* an attack that hits twice and takes one energy away
TwinStrike ==
    EstCard("Twin Strike", "ATTACK", 1, [damage |-> IntV(5), hits |-> IntV(2), energy |-> IntV(-1)])

\* an attack of variable cost (the sentinel -1) whose hits are not a number
Whirlwind ==
    EstCard("Whirlwind", "ATTACK", -1, [damage |-> IntV(5), hits |-> StrV])

\* a status card, unplayable (the sentinel -2), that carries an energy effect
Wound == EstCard("Wound", "STATUS", -2, [energy |-> IntV(1)])

\* a free skill that grants energy
Bloodletting == EstCard("Bloodletting", "SKILL", 0, [energy |-> IntV(2)])

\* an attack that blocks as well, its damage and its energy not a number
BodySlam ==
    EstCard("Body Slam", "ATTACK", 1, [damage |-> StrV, block |-> IntV(3), energy |-> StrV])

\* an attack of variable cost (the sentinel -1) without a damage effect, that
\* blocks and grants no energy
Skewer == EstCard("Skewer", "ATTACK", -1, [block |-> IntV(4), energy |-> IntV(0)])

EstCards ==
    {Strike, Defend, Bash, TwinStrike, Whirlwind, Wound, Bloodletting, BodySlam, Skewer}

\* The starting deck of the Ironclad (main.py build_starter_deck): five
\* Strike, four Defend and Bash
StarterCards ==
    <<Strike, Strike, Strike, Strike, Strike,
      Defend, Defend, Defend, Defend, Bash>>

\* the decks the estimators are asked about
EstDecks == SeqsUpTo(EstCards, MaxEstDeck) \cup {StarterCards}

----------------------------------------------------------------------------
(* The estimators (src/stats/probability.py) *)

\* what an estimator call comes to: the value returned, or an exception
Returns(v) == [ret |-> v, raised |-> FALSE]

Raises == [ret |-> Zero, raised |-> TRUE]

\* Mutant of DrawProbability: the check of draw_count against the deck size
\* comes before the check for a target the deck does not hold
DrawProbabilityTotalFirst(d, target, draw_count) ==
    LET total == TotalCards(d)
        copies == CounterGet(CardCounts(d), target)
    IN  IF draw_count >= total THEN Returns(One)
        ELSE IF copies = 0 \/ draw_count = 0 THEN Returns(Zero)
        ELSE IF CombRaises(total - copies, draw_count) THEN Raises
        ELSE Returns(FSub(One, Frac(Comb(total - copies, draw_count),
                                    Comb(total, draw_count))))

\* Mutant of DrawProbability: a draw of the whole deck or more is estimated
\* as a draw of one card less than the deck holds
DrawProbabilityShortDraw(d, target, draw_count) ==
    LET total == TotalCards(d)
        copies == CounterGet(CardCounts(d), target)
    IN  IF copies = 0 \/ draw_count = 0 THEN Returns(Zero)
        ELSE IF draw_count >= total
             THEN Returns(FSub(One, Frac(Comb(total - copies, total - 1),
                                         Comb(total, total - 1))))
        ELSE IF CombRaises(total - copies, draw_count) THEN Raises
        ELSE Returns(FSub(One, Frac(Comb(total - copies, draw_count),
                                    Comb(total, draw_count))))

\* Mutant of DrawProbability: the probability of missing the target
DrawProbabilityMiss(d, target, draw_count) ==
    LET total == TotalCards(d)
        copies == CounterGet(CardCounts(d), target)
    IN  IF copies = 0 \/ draw_count = 0 THEN Returns(Zero)
        ELSE IF draw_count >= total THEN Returns(One)
        ELSE IF CombRaises(total - copies, draw_count) THEN Raises
        ELSE Returns(Frac(Comb(total - copies, draw_count),
                          Comb(total, draw_count)))

\* draw_probability
DrawProbability(d, target, draw_count) ==
    LET total == TotalCards(d)
        copies == CounterGet(CardCounts(d), target)
    IN  IF copies = 0 \/ draw_count = 0 THEN Returns(Zero)
        ELSE IF draw_count >= total THEN Returns(One)
        ELSE IF \/ CombRaises(total - copies, draw_count)
                \/ CombRaises(total, draw_count)
             THEN Raises
        ELSE Returns(FSub(One, Frac(Comb(total - copies, draw_count),
                                    Comb(total, draw_count))))

\* Mutant of PlayedCost: the sentinel is used as it is
PlayedCostRaw(card) == card.cost

\* `card.cost if card.cost >= 0 else 0`
PlayedCost(card) == IF card.cost >= 0 THEN card.cost ELSE 0

\* `copies * hand_size / total_cards`
ECopies(copies, hand_size, total_cards) == Frac(copies * hand_size, total_cards)

\* Mutant of BonusLoop: status and curse cards are counted as well
RECURSIVE BonusLoopAllTypes(_, _, _, _, _)
BonusLoopAllTypes(items, i, hand_size, total_cards, bonus) ==
    IF i > Len(items) THEN bonus
    ELSE LET card == items[i].card
             copies == items[i].count
             energy_gain == Get(card.effects, "energy", IntV(0))
         IN  IF ~IsNumber(energy_gain) \/ FLe(Number(energy_gain), Zero)
             THEN BonusLoopAllTypes(items, i + 1, hand_size, total_cards, bonus)
             ELSE BonusLoopAllTypes(items, i + 1, hand_size, total_cards,
                     FAdd(bonus, FMul(ECopies(copies, hand_size, total_cards),
                                      Number(energy_gain))))

\* the loop of _expected_bonus_energy over card_counts().items()
RECURSIVE BonusLoop(_, _, _, _, _)
BonusLoop(items, i, hand_size, total_cards, bonus) ==
    IF i > Len(items) THEN bonus
    ELSE LET card == items[i].card
             copies == items[i].count
             energy_gain == Get(card.effects, "energy", IntV(0))
         IN  IF card.card_type \in {"CURSE", "STATUS"}
             THEN BonusLoop(items, i + 1, hand_size, total_cards, bonus)
             ELSE IF ~IsNumber(energy_gain) \/ FLe(Number(energy_gain), Zero)
             THEN BonusLoop(items, i + 1, hand_size, total_cards, bonus)
             ELSE BonusLoop(items, i + 1, hand_size, total_cards,
                     FAdd(bonus, FMul(ECopies(copies, hand_size, total_cards),
                                      Number(energy_gain))))

\* _expected_bonus_energy
ExpectedBonusEnergy(d, hand_size) ==
    IF TotalCards(d) = 0 THEN Zero
    ELSE BonusLoop(CardCounts(d), 1, hand_size, TotalCards(d), Zero)

\* Mutant of DemandLoop: a negative cost is added to the demand as it is
RECURSIVE DemandLoopRawCost(_, _, _, _, _, _)
DemandLoopRawCost(items, i, hand_size, total_cards, energy, demand) ==
    IF i > Len(items) THEN demand
    ELSE LET card == items[i].card
             copies == items[i].count
             cost == card.cost
         IN  IF card.card_type \in {"CURSE", "STATUS"}
             THEN DemandLoopRawCost(items, i + 1, hand_size, total_cards,
                                    energy, demand)
             ELSE IF FLt(energy, FInt(cost))
             THEN DemandLoopRawCost(items, i + 1, hand_size, total_cards,
                                    energy, demand)
             ELSE DemandLoopRawCost(items, i + 1, hand_size, total_cards,
                     energy,
                     FAdd(demand, FMul(ECopies(copies, hand_size, total_cards),
                                       FInt(cost))))

\* the loop of _energy_scale over card_counts().items()
RECURSIVE DemandLoop(_, _, _, _, _, _)
DemandLoop(items, i, hand_size, total_cards, energy, demand) ==
    IF i > Len(items) THEN demand
    ELSE LET card == items[i].card
             copies == items[i].count
             cost == PlayedCost(card)
         IN  IF card.card_type \in {"CURSE", "STATUS"}
             THEN DemandLoop(items, i + 1, hand_size, total_cards, energy,
                             demand)
             ELSE IF FLt(energy, FInt(cost))
             THEN DemandLoop(items, i + 1, hand_size, total_cards, energy,
                             demand)
             ELSE DemandLoop(items, i + 1, hand_size, total_cards, energy,
                     FAdd(demand, FMul(ECopies(copies, hand_size, total_cards),
                                       FInt(cost))))

\* Mutant of EnergyScale: the empty deck is scaled to nothing
EnergyScaleEmptyZero(d, hand_size, energy) ==
    IF TotalCards(d) = 0 THEN Zero
    ELSE LET demand == DemandLoop(CardCounts(d), 1, hand_size, TotalCards(d),
                                  energy, Zero)
         IN  IF FLt(Zero, demand) THEN FMin(One, FDiv(energy, demand))
             ELSE One

\* _energy_scale; energy is a fraction
EnergyScale(d, hand_size, energy) ==
    IF TotalCards(d) = 0 THEN One
    ELSE LET demand == DemandLoop(CardCounts(d), 1, hand_size, TotalCards(d),
                                  energy, Zero)
         IN  IF FLt(Zero, demand) THEN FMin(One, FDiv(energy, demand))
             ELSE One

\* the arguments of expected_damage_output and expected_block_output
Args(hand_size, energy, strength, dexterity, vulnerable, weak, vm, wm) ==
    [hand_size |-> hand_size, energy |-> energy, strength |-> strength,
     dexterity |-> dexterity, vulnerable |-> vulnerable, weak |-> weak,
     vuln_multiplier |-> vm, weak_multiplier |-> wm]

\* Mutant of CardDamage: an attack hits once whatever its hits effect says
CardDamageOneHit(card, a) ==
    LET base_dmg == Get(card.effects, "damage", IntV(0))
        vuln_mult == IF a.vulnerable THEN a.vuln_multiplier ELSE One
        weak_mult == IF a.weak THEN a.weak_multiplier ELSE One
    IN  FMul(FMul(FAdd(Number(base_dmg), FInt(a.strength)), vuln_mult),
             weak_mult)

\* `dmg` of expected_damage_output for a card whose damage is a number:
\* (base_dmg + strength) * hits * vuln_mult * weak_mult
CardDamage(card, a) ==
    LET base_dmg == Get(card.effects, "damage", IntV(0))
        h == Get(card.effects, "hits", IntV(1))
        hits == IF IsInt(h) THEN h.num ELSE 1
        vuln_mult == IF a.vulnerable THEN a.vuln_multiplier ELSE One
        weak_mult == IF a.weak THEN a.weak_multiplier ELSE One
    IN  FMul(FMul(FMul(FAdd(Number(base_dmg), FInt(a.strength)), FInt(hits)),
                  vuln_mult),
             weak_mult)

\* the loop of expected_damage_output over card_counts().items()
RECURSIVE DamageLoop(_, _, _, _, _)
DamageLoop(items, i, a, total_cards, expected) ==
    IF i > Len(items) THEN expected
    ELSE LET card == items[i].card
             copies == items[i].count
         IN  IF card.card_type # "ATTACK"
             THEN DamageLoop(items, i + 1, a, total_cards, expected)
             ELSE IF ~IsNumber(Get(card.effects, "damage", IntV(0)))
             THEN DamageLoop(items, i + 1, a, total_cards, expected)
             ELSE IF PlayedCost(card) > a.energy
             THEN DamageLoop(items, i + 1, a, total_cards, expected)
             ELSE DamageLoop(items, i + 1, a, total_cards,
                     FAdd(expected,
                          FMul(ECopies(copies, a.hand_size, total_cards),
                               CardDamage(card, a))))

\* expected_damage_output
ExpectedDamageOutput(d, a) ==
    IF TotalCards(d) = 0 THEN Zero
    ELSE LET effective_energy ==
                 FAdd(FInt(a.energy), ExpectedBonusEnergy(d, a.hand_size))
             scale == EnergyScale(d, a.hand_size, effective_energy)
         IN  FMul(DamageLoop(CardCounts(d), 1, a, TotalCards(d), Zero), scale)

\* Mutant of CardBlock: dexterity is left out of the block of a card
CardBlockNoDexterity(card, a) ==
    FMax(Number(Get(card.effects, "block", IntV(0))), Zero)

\* `max(block, 0)` of expected_block_output, block = base_block + dexterity
CardBlock(card, a) ==
    FMax(FAdd(Number(Get(card.effects, "block", IntV(0))), FInt(a.dexterity)),
         Zero)

\* the loop of expected_block_output over card_counts().items()
RECURSIVE BlockLoop(_, _, _, _, _)
BlockLoop(items, i, a, total_cards, expected) ==
    IF i > Len(items) THEN expected
    ELSE LET card == items[i].card
             copies == items[i].count
             base_block == Get(card.effects, "block", IntV(0))
         IN  IF ~IsNumber(base_block) \/ FLe(Number(base_block), Zero)
             THEN BlockLoop(items, i + 1, a, total_cards, expected)
             ELSE IF PlayedCost(card) > a.energy
             THEN BlockLoop(items, i + 1, a, total_cards, expected)
             ELSE BlockLoop(items, i + 1, a, total_cards,
                     FAdd(expected,
                          FMul(ECopies(copies, a.hand_size, total_cards),
                               CardBlock(card, a))))

\* expected_block_output
ExpectedBlockOutput(d, a) ==
    IF TotalCards(d) = 0 THEN Zero
    ELSE LET effective_energy ==
                 FAdd(FInt(a.energy), ExpectedBonusEnergy(d, a.hand_size))
             scale == EnergyScale(d, a.hand_size, effective_energy)
         IN  FMul(BlockLoop(CardCounts(d), 1, a, TotalCards(d), Zero), scale)

----------------------------------------------------------------------------
(* Calls of the estimators *)

\* draw_count of draw_probability
EstDrawCounts == (-1 .. (MaxEstDeck + 1)) \cup {5}

HandSizes == {-1, 0, 2, 5}

Energies == 0 .. 3

Strengths == {-7, 0, 2}

Dexterities == {-6, 0, 2}

\* vuln_multiplier and weak_multiplier: the defaults 1.5 and 0.75
DefaultMultipliers == [vuln |-> Frac(3, 2), weak |-> Frac(3, 4)]

\* the multipliers a caller overrides the defaults with: 2.0 and 0.5
OtherMultipliers == [vuln |-> FInt(2), weak |-> Frac(1, 2)]

\* the energy handed to _energy_scale
Budgets == {Zero, Frac(1, 2), One, FInt(3), Frac(7, 2)}

NoArgs == Args(0, 0, 0, 0, FALSE, FALSE, One, One)

\* arguments of expected_damage_output: every flag with the default
\* multipliers, both flags with the other ones
DamageArgs ==
    { Args(h, e, s, 0, v, w,
           DefaultMultipliers.vuln, DefaultMultipliers.weak) :
        h \in HandSizes, e \in Energies, s \in Strengths,
        v \in BOOLEAN, w \in BOOLEAN }
    \cup
    { Args(h, e, s, 0, TRUE, TRUE,
           OtherMultipliers.vuln, OtherMultipliers.weak) :
        h \in HandSizes, e \in Energies, s \in Strengths }

\* arguments of expected_block_output
BlockArgs ==
    { Args(h, e, 0, x, FALSE, FALSE, One, One) :
        h \in HandSizes, e \in Energies, x \in Dexterities }

\* the record of a completed estimator call: card, n, args and budget are
\* its arguments, ret the number it returned, raised whether it ended in an
\* exception instead
Query(op, card, n, a, budget, o) ==
    [op |-> op, card |-> card, n |-> n, args |-> a, budget |-> budget,
     ret |-> o.ret, raised |-> o.raised]

NoQuery == Query("none", NoCard, 0, NoArgs, Zero, Returns(Zero))

EstimatorNames ==
    {"draw_probability", "expected_bonus_energy", "energy_scale",
     "expected_damage_output", "expected_block_output"}

\* The estimators keep no state and leave the deck alone: the estimate that
\* follows another one on the same piles is the first estimate of another
\* behaviour, so an estimate is asked when the latest call was not one.
CanAsk == Idle /\ last.op \notin EstimatorNames

QueryDrawProbability(targets, counts) ==
    /\ CanAsk
    /\ \E target \in targets : \E n \in counts :
          last' = Query("draw_probability", target, n, NoArgs, Zero,
                        DrawProbability(BaseDeck, target, n))
    /\ UNCHANGED <<cards0, decks, base_state, state, call, sim, result,
                   returned,
                   played>>

QueryBonusEnergy(sizes) ==
    /\ CanAsk
    /\ \E h \in sizes :
          last' = Query("expected_bonus_energy", NoCard, 0,
                        [NoArgs EXCEPT !.hand_size = h], Zero,
                        Returns(ExpectedBonusEnergy(BaseDeck, h)))
    /\ UNCHANGED <<cards0, decks, base_state, state, call, sim, result,
                   returned,
                   played>>

QueryEnergyScale(sizes, budgets) ==
    /\ CanAsk
    /\ \E h \in sizes : \E b \in budgets :
          last' = Query("energy_scale", NoCard, 0,
                        [NoArgs EXCEPT !.hand_size = h], b,
                        Returns(EnergyScale(BaseDeck, h, b)))
    /\ UNCHANGED <<cards0, decks, base_state, state, call, sim, result,
                   returned,
                   played>>

QueryDamage(args) ==
    /\ CanAsk
    /\ \E a \in args :
          last' = Query("expected_damage_output", NoCard, 0, a, Zero,
                        Returns(ExpectedDamageOutput(BaseDeck, a)))
    /\ UNCHANGED <<cards0, decks, base_state, state, call, sim, result,
                   returned,
                   played>>

QueryBlock(args) ==
    /\ CanAsk
    /\ \E a \in args :
          last' = Query("expected_block_output", NoCard, 0, a, Zero,
                        Returns(ExpectedBlockOutput(BaseDeck, a)))
    /\ UNCHANGED <<cards0, decks, base_state, state, call, sim, result,
                   returned,
                   played>>

\* A deck as constructed from one of the estimated card lists
InitEst ==
    /\ cards0 \in EstDecks
    /\ decks = [base |-> NewDeck(cards0), clone |-> EmptyDeck]
    /\ base_state = NewGameState("base")
    /\ state = NoState
    /\ last = NoQuery
    /\ call = CallIdle
    /\ sim = SimIdle
    /\ result = NewResult
    /\ returned = <<>>
    /\ played = NoTurns

NextEst ==
    \/ QueryDrawProbability(EstCards, EstDrawCounts)
    \/ QueryBonusEnergy(HandSizes)
    \/ QueryEnergyScale(HandSizes, Budgets)
    \/ QueryDamage(DamageArgs)
    \/ QueryBlock(BlockArgs)

\* the estimators asked about a deck as constructed
SpecEst == InitEst /\ [][NextEst]_vars

----------------------------------------------------------------------------
(* draw_probability (SpecEst) *)

\* number of ways to choose k of n things, by counting them
Choose(n, k) == Cardinality({S \in SUBSET (1..n) : Cardinality(S) = k})

\* the hypergeometric chance that a draw of d cards out of N, K of them the
\* target, holds the target
Hypergeometric(N, K, d) ==
    IF K = 0 \/ d = 0 THEN Zero
    ELSE IF d >= N THEN One
    ELSE FSub(One, Frac(Choose(N - K, d), Choose(N, d)))

\* C11: for a draw count d >= 0, with N the cards of the deck and K the
\* copies of the target, draw_probability returns 0 when K = 0 or d = 0,
\* 1 when d >= N, and otherwise 1 - C(N-K, d) / C(N, d); the result lies in
\* [0, 1]; a 10-card deck with one copy and d = 5 gives 1/2.
C11_DrawProbability ==
    (last.op = "draw_probability" /\ last.n >= 0) =>
        LET N == Len(cards0)
            K == CopiesIn(cards0, last.card)
        IN  /\ ~last.raised
            /\ last.ret = Hypergeometric(N, K, last.n)
            /\ FLe(Zero, last.ret) /\ FLe(last.ret, One)
            /\ (N = 10 /\ K = 1 /\ last.n = 5) => last.ret = Frac(1, 2)

\* C11 witness: the starter deck asked for Bash in a draw of five.
C11_Witness ==
    /\ last.op = "draw_probability"
    /\ Len(cards0) = 10
    /\ CopiesIn(cards0, last.card) = 1
    /\ last.n = 5
    /\ last.ret = Frac(1, 2)

\* C12 as stated: for all decks and targets draw_probability is 1 whenever
\* the draw count is at least the number of cards of the deck.
C12_SureDrawAnyTarget ==
    (last.op = "draw_probability" /\ last.n >= Len(cards0)) =>
        (~last.raised /\ last.ret = One)

\* C12: draw_probability is 1 whenever the deck holds at least one copy of
\* the target and the draw count is at least the number of cards of the
\* deck.
C12_SureDraw ==
    (/\ last.op = "draw_probability"
     /\ CopiesIn(cards0, last.card) >= 1
     /\ last.n >= Len(cards0)) =>
        (~last.raised /\ last.ret = One)

\* C12 witness: a draw of the whole starter deck, asked for its one Bash.
C12_Witness ==
    /\ last.op = "draw_probability"
    /\ CopiesIn(cards0, last.card) = 1
    /\ Len(cards0) >= 2
    /\ last.n = Len(cards0)
    /\ last.ret = One

\* the card list with its i-th card replaced by one more copy of c
OneMoreCopy(cards, i, c) == [cards EXCEPT ![i] = c]

\* C13: for every draw count d >= 0, draw_probability does not fall when d
\* grows by one (deck and target fixed), and does not fall when a card of
\* the deck that is not the target is replaced by a copy of the target
\* (number of cards and d fixed).
C13_Monotone ==
    (last.op = "draw_probability" /\ last.n >= 0) =>
        /\ ~last.raised
        /\ LET more == DrawProbability(BaseDeck, last.card, last.n + 1)
           IN  ~more.raised /\ FLe(last.ret, more.ret)
        /\ \A i \in 1..Len(cards0) :
              ~SameKey(cards0[i], last.card) =>
                  LET more == DrawProbability(
                                  NewDeck(OneMoreCopy(cards0, i, last.card)),
                                  last.card, last.n)
                  IN  ~more.raised /\ FLe(last.ret, more.ret)

\* C13 witness: an estimate strictly between 0 and 1 that grows both with
\* one more card drawn and with one more copy in the deck.
C13_Witness ==
    /\ last.op = "draw_probability"
    /\ last.n >= 1
    /\ FLt(Zero, last.ret)
    /\ FLt(last.ret,
           DrawProbability(BaseDeck, last.card, last.n + 1).ret)
    /\ \E i \in 1..Len(cards0) :
          /\ ~SameKey(cards0[i], last.card)
          /\ FLt(last.ret,
                 DrawProbability(NewDeck(OneMoreCopy(cards0, i, last.card)),
                                 last.card, last.n).ret)

----------------------------------------------------------------------------
(* The estimators asked about a deck in play (SpecPlayed) *)

\* a second instance of Strike: equal to Strike as a card (same name, same
\* character), with effects of its own
StrikeVariant ==
    EstCard("Strike", "ATTACK", 1, [damage |-> IntV(9), block |-> IntV(2)])

PlayedCards == {Strike, StrikeVariant, Defend}

PlayedDrawCounts == 1 .. MaxPlayedDeck

\* the arguments main() asks with, and a hand of one card
PlayedArgs ==
    { Args(h, 3, 0, 0, FALSE, FALSE, Frac(3, 2), Frac(3, 4)) : h \in {1, 5} }

\* A deck as constructed from cards of the played kinds
InitPlayed ==
    /\ cards0 \in SeqsUpTo(PlayedCards, MaxPlayedDeck)
    /\ decks = [base |-> NewDeck(cards0), clone |-> EmptyDeck]
    /\ base_state = NewGameState("base")
    /\ state = NoState
    /\ last = NoQuery
    /\ call = CallIdle
    /\ sim = SimIdle
    /\ result = NewResult
    /\ returned = <<>>
    /\ played = NoTurns

NextPlayed ==
    \/ DeckShuffle
    \/ DeckDraw
    \/ DeckDiscardHand
    \/ QueryDrawProbability(PlayedCards, PlayedDrawCounts)
    \/ QueryDamage(PlayedArgs)
    \/ QueryBlock(PlayedArgs)

\* shuffle, draw and discard_hand, with estimates in between
SpecPlayed == InitPlayed /\ [][NextPlayed]_vars

\* the deck before any shuffle, draw or discard_hand
DeckBefore == NewDeck(cards0)

\* C14: after any sequence of shuffle(), draw(n) and discard_hand() calls,
\* draw_probability, expected_damage_output and expected_block_output
\* return what they return for the deck before the sequence.
C14_CompositionOnly ==
    /\ last.op = "draw_probability" =>
          last.ret = DrawProbability(DeckBefore, last.card, last.n).ret
    /\ last.op = "expected_damage_output" =>
          last.ret = ExpectedDamageOutput(DeckBefore, last.args)
    /\ last.op = "expected_block_output" =>
          last.ret = ExpectedBlockOutput(DeckBefore, last.args)

----------------------------------------------------------------------------
(* Relic modifiers (src/stats/probability.py, src/ui/app.py) *)

\* relic.py: name and effects are the fields the model keeps
Relic(name, effects) == [name |-> name, effects |-> effects]

Vajra == Relic("Vajra", [strength |-> IntV(1)])

Anchor == Relic("Anchor", [block_start |-> IntV(10)])

\* turn-1 energy, and turn-1 dexterity and draw under the keys a turn-1
\* variant of dexterity and of draw would have
Lantern ==
    Relic("Lantern", [energy_turn1 |-> IntV(1), strength_turn1 |-> IntV(2),
                      dexterity_turn1 |-> IntV(1), draw_turn1 |-> IntV(2)])

\* no effects at all
Circlet == Relic("Circlet", NoEffects)

\* keys the aggregator does not know
BagOfPreparation ==
    Relic("Bag of Preparation", [draw_turn1 |-> IntV(2), gold |-> StrV])

PaperFrog ==
    Relic("Paper Frog", [vulnerable |-> BoolV(TRUE),
                         vuln_multiplier |-> FloatV(7, 4), energy |-> IntV(1),
                         draw |-> IntV(1)])

PaperCrane ==
    Relic("Paper Crane", [weak |-> IntV(1), weak_multiplier |-> FloatV(3, 5),
                          vuln_multiplier |-> FloatV(2, 1),
                          dexterity |-> IntV(-1)])

\* a strength that is not a number
Broken == Relic("Broken", [strength |-> StrV])

RelicPool ==
    {Vajra, Anchor, Lantern, Circlet, BagOfPreparation, PaperFrog, PaperCrane,
     Broken}

\* RelicCombatModifiers(): the dataclass with its defaults
RelicCombatModifiers ==
    [energy |-> Zero, strength |-> Zero, dexterity |-> Zero, draw |-> Zero,
     energy_turn1 |-> Zero, strength_turn1 |-> Zero,
     vulnerable |-> FALSE, weak |-> FALSE,
     vuln_multiplier |-> NoneV, weak_multiplier |-> NoneV,
     block_start |-> Zero]

\* the keys added up by `mods.<key> += e.get("<key>", 0)`
AddedKeys ==
    {"energy", "strength", "dexterity", "draw", "energy_turn1",
     "strength_turn1", "block_start"}

\* `+=` of a number and a value that is not a number raises TypeError
AddRaises(e) == \E k \in AddedKeys : ~IsNumber(Get(e, k, IntV(0)))

\* the number e.get(key, 0) adds
Added(e, key) == Number(Get(e, key, IntV(0)))

\* Mutant of ModifiersStep: a multiplier that is set is kept, and turn-1
\* strength is added to the lasting strength
ModifiersStepFirstWins(mods, e) ==
    [mods EXCEPT
        !.energy = FAdd(@, Added(e, "energy")),
        !.strength = FAdd(FAdd(@, Added(e, "strength")),
                          Added(e, "strength_turn1")),
        !.dexterity = FAdd(@, Added(e, "dexterity")),
        !.draw = FAdd(@, Added(e, "draw")),
        !.energy_turn1 = FAdd(@, Added(e, "energy_turn1")),
        !.block_start = FAdd(@, Added(e, "block_start")),
        !.vulnerable = IF Truthy(Get(e, "vulnerable", NoneV)) THEN TRUE ELSE @,
        !.weak = IF Truthy(Get(e, "weak", NoneV)) THEN TRUE ELSE @,
        !.vuln_multiplier =
            IF "vuln_multiplier" \in DOMAIN e /\ @ = NoneV
            THEN e["vuln_multiplier"] ELSE @,
        !.weak_multiplier =
            IF "weak_multiplier" \in DOMAIN e /\ @ = NoneV
            THEN e["weak_multiplier"] ELSE @]

\* the loop body of get_relic_combat_modifiers after `if not e: continue`,
\* for effects e whose added values are numbers
ModifiersStep(mods, e) ==
    [mods EXCEPT
        !.energy = FAdd(@, Added(e, "energy")),
        !.strength = FAdd(@, Added(e, "strength")),
        !.dexterity = FAdd(@, Added(e, "dexterity")),
        !.draw = FAdd(@, Added(e, "draw")),
        !.energy_turn1 = FAdd(@, Added(e, "energy_turn1")),
        !.strength_turn1 = FAdd(@, Added(e, "strength_turn1")),
        !.block_start = FAdd(@, Added(e, "block_start")),
        !.vulnerable = IF Truthy(Get(e, "vulnerable", NoneV)) THEN TRUE ELSE @,
        !.weak = IF Truthy(Get(e, "weak", NoneV)) THEN TRUE ELSE @,
        !.vuln_multiplier =
            IF "vuln_multiplier" \in DOMAIN e THEN e["vuln_multiplier"] ELSE @,
        !.weak_multiplier =
            IF "weak_multiplier" \in DOMAIN e THEN e["weak_multiplier"] ELSE @]

\* the loop of get_relic_combat_modifiers
RECURSIVE ModifiersLoop(_, _, _)
ModifiersLoop(relics, i, mods) ==
    IF i > Len(relics) THEN [mods |-> mods, raised |-> FALSE]
    ELSE LET e == relics[i].effects
         IN  IF DOMAIN e = {} THEN ModifiersLoop(relics, i + 1, mods)
             ELSE IF AddRaises(e) THEN [mods |-> mods, raised |-> TRUE]
             ELSE ModifiersLoop(relics, i + 1, ModifiersStep(mods, e))

\* get_relic_combat_modifiers: the bundle returned, or raised
GetRelicCombatModifiers(relics) ==
    ModifiersLoop(relics, 1, RelicCombatModifiers)

\* mods.<name> raises AttributeError for a name the dataclass does not have
HasAttr(mods, name) == name \in DOMAIN mods

\* the values of the controls _recalculate reads (app.py lines 988-994)
Controls ==
    { [hand_size |-> 5, energy |-> 3, strength |-> 0, dexterity |-> 0,
       vulnerable |-> v, weak |-> FALSE, turn1 |-> t] :
        v \in BOOLEAN, t \in BOOLEAN }

NoControls ==
    [hand_size |-> 0, energy |-> 0, strength |-> 0, dexterity |-> 0,
     vulnerable |-> FALSE, weak |-> FALSE, turn1 |-> FALSE]

NoEff ==
    [eff_energy |-> Zero, eff_strength |-> Zero, eff_dexterity |-> Zero,
     eff_hand_size |-> Zero, eff_vulnerable |-> FALSE, eff_weak |-> FALSE]

\* _recalculate, lines 997-1008: the effective values, or raised
Recalculate(relics, ui) ==
    LET agg == GetRelicCombatModifiers(relics)
        mods == agg.mods
    IN  IF agg.raised THEN [eff |-> NoEff, raised |-> TRUE]
        ELSE IF ui.turn1 /\ ~HasAttr(mods, "draw_turn1")
        THEN [eff |-> NoEff, raised |-> TRUE]
        ELSE IF /\ ~ui.vulnerable /\ ~mods.vulnerable
                /\ ui.turn1 /\ ~HasAttr(mods, "vulnerable_turn1")
        THEN [eff |-> NoEff, raised |-> TRUE]
        ELSE IF /\ ~ui.weak /\ ~mods.weak
                /\ ui.turn1 /\ ~HasAttr(mods, "weak_turn1")
        THEN [eff |-> NoEff, raised |-> TRUE]
        ELSE [eff |->
                [eff_energy |->
                    FAdd(FAdd(FInt(ui.energy), mods.energy),
                         IF ui.turn1 THEN mods.energy_turn1 ELSE Zero),
                 eff_strength |->
                    FAdd(FAdd(FInt(ui.strength), mods.strength),
                         IF ui.turn1 THEN mods.strength_turn1 ELSE Zero),
                 eff_dexterity |-> FAdd(FInt(ui.dexterity), mods.dexterity),
                 eff_hand_size |->
                    FAdd(FAdd(FInt(ui.hand_size), mods.draw),
                         IF ui.turn1 THEN mods.draw_turn1 ELSE Zero),
                 eff_vulnerable |->
                    \/ ui.vulnerable
                    \/ mods.vulnerable
                    \/ (ui.turn1 /\ mods.vulnerable_turn1),
                 eff_weak |->
                    \/ ui.weak
                    \/ mods.weak
                    \/ (ui.turn1 /\ mods.weak_turn1)],
              raised |-> FALSE]

\* the record of a completed call on a relic list
RelicQuery(op, relics, ui, mods, eff, raised) ==
    [op |-> op, relics |-> relics, ui |-> ui, mods |-> mods, eff |-> eff,
     raised |-> raised]

\* the selected relics: any list of at most MaxRelics relics
RelicLists == SeqsUpTo(RelicPool, MaxRelics)

\* one call per behaviour: neither function keeps state between calls
CanAskRelics == Idle /\ last.op = "none"

Aggregate ==
    /\ CanAskRelics
    /\ \E relics \in RelicLists :
          LET agg == GetRelicCombatModifiers(relics)
          IN  last' = RelicQuery("get_relic_combat_modifiers", relics,
                                 NoControls, agg.mods, NoEff, agg.raised)
    /\ UNCHANGED <<cards0, decks, base_state, state, call, sim, result,
                   returned,
                   played>>

StatisticsRecalculate ==
    /\ CanAskRelics
    /\ \E relics \in RelicLists : \E ui \in Controls :
          LET o == Recalculate(relics, ui)
          IN  last' = RelicQuery("_recalculate", relics, ui,
                                 GetRelicCombatModifiers(relics).mods,
                                 o.eff, o.raised)
    /\ UNCHANGED <<cards0, decks, base_state, state, call, sim, result,
                   returned,
                   played>>

\* no relic list aggregated yet
InitRelics ==
    /\ cards0 = <<>>
    /\ decks = [base |-> EmptyDeck, clone |-> EmptyDeck]
    /\ base_state = NewGameState("base")
    /\ state = NoState
    /\ last = NoQuery
    /\ call = CallIdle
    /\ sim = SimIdle
    /\ result = NewResult
    /\ returned = <<>>
    /\ played = NoTurns

NextRelics == Aggregate \/ StatisticsRecalculate

\* get_relic_combat_modifiers and its caller _recalculate
SpecRelics == InitRelics /\ [][NextRelics]_vars

\* sum over the relics of the number each gives under key, 0 when it gives
\* none
RECURSIVE SumOfKey(_, _)
SumOfKey(relics, key) ==
    IF relics = <<>> THEN Zero
    ELSE FAdd(IF key \in DOMAIN Last(relics).effects
              THEN Number(Last(relics).effects[key]) ELSE Zero,
              SumOfKey(Front(relics), key))

\* the places of the list whose relic defines key
Defining(relics, key) ==
    {i \in 1..Len(relics) : key \in DOMAIN relics[i].effects}

\* the value under key of the last relic that defines it, none without one
LastDefined(relics, key) ==
    IF Defining(relics, key) = {} THEN NoneV
    ELSE LET i == CHOOSE i \in Defining(relics, key) :
                      \A j \in Defining(relics, key) : j <= i
         IN  relics[i].effects[key]

\* every value the relics give under an added key is a number
NumericRelics(relics) ==
    \A i \in 1..Len(relics) : \A k \in AddedKeys :
        k \in DOMAIN relics[i].effects => IsNumber(relics[i].effects[k])

\* C15: for relics whose added values are numbers,
\* get_relic_combat_modifiers returns without failure the sum over the
\* relics of each of energy, strength, dexterity, draw, block_start,
\* energy_turn1 and strength_turn1, the OR of vulnerable and of weak, and
\* for each multiplier the value of the last relic that defines it (none
\* without one); relics with no effects or only unknown keys change
\* nothing, and the empty list gives the bundle of defaults.
C15_RelicModifiers ==
    (last.op = "get_relic_combat_modifiers" /\ NumericRelics(last.relics)) =>
        LET relics == last.relics
            mods == last.mods
        IN  /\ ~last.raised
            /\ \A k \in AddedKeys : mods[k] = SumOfKey(relics, k)
            /\ mods.vulnerable <=>
                  \E i \in Defining(relics, "vulnerable") :
                      Truthy(relics[i].effects["vulnerable"])
            /\ mods.weak <=>
                  \E i \in Defining(relics, "weak") :
                      Truthy(relics[i].effects["weak"])
            /\ mods.vuln_multiplier = LastDefined(relics, "vuln_multiplier")
            /\ mods.weak_multiplier = LastDefined(relics, "weak_multiplier")
            /\ (\A i \in 1..Len(relics) :
                   DOMAIN relics[i].effects \cap DOMAIN mods = {})
                  => mods = RelicCombatModifiers

\* C15 witness: two relics that define vuln_multiplier differently, the
\* later one winning, after a relic with unknown keys only.
C15_Witness ==
    /\ last.op = "get_relic_combat_modifiers"
    /\ Len(last.relics) = 3
    /\ last.relics[1] = BagOfPreparation
    /\ last.relics[2] = PaperCrane
    /\ last.relics[3] = PaperFrog
    /\ last.mods.vuln_multiplier = FloatV(7, 4)
    /\ last.mods.weak_multiplier = FloatV(3, 5)
    /\ last.mods.energy = One
    /\ last.mods.vulnerable /\ last.mods.weak

\* the key of the turn-1 variant of a modifier
Turn1Key ==
    [energy |-> "energy_turn1", strength |-> "strength_turn1",
     dexterity |-> "dexterity_turn1", draw |-> "draw_turn1"]

\* C16: the bundle get_relic_combat_modifiers returns has a turn-1 total
\* for each of energy, strength, dexterity and draw, equal to the sum of
\* the relics' turn-1 values of it.  Stated for the relic lists that hold
\* Lantern, a relic with a turn-1 value for each of the four.
C16_Turn1Variants ==
    (/\ last.op = "get_relic_combat_modifiers"
     /\ ~last.raised
     /\ \E i \in 1..Len(last.relics) : last.relics[i] = Lantern) =>
        \A f \in DOMAIN Turn1Key :
            /\ Turn1Key[f] \in DOMAIN last.mods
            /\ last.mods[Turn1Key[f]] = SumOfKey(last.relics, Turn1Key[f])

----------------------------------------------------------------------------
(* energy_scale, expected_damage_output, expected_block_output (SpecEst) *)

\* sum of the values of a function onto fractions
RECURSIVE SumOf(_)
SumOf(f) ==
    IF DOMAIN f = {} THEN Zero
    ELSE LET x == CHOOSE x \in DOMAIN f : TRUE
         IN  FAdd(f[x], SumOf([y \in DOMAIN f \ {x} |-> f[y]]))

\* the distinct cards of a list; the cards of EstDecks that are equal are
\* the same card
Distinct(cards) == Range(cards)

\* expected copies of c in a hand of h cards: copies * h / N
ExpectedCopies(cards, c, h) == Frac(CopiesIn(cards, c) * h, Len(cards))

\* the energy a card is played for: its cost, and 0 for the negative
\* sentinel of a variable or unplayable cost, which is not a number of
\* energy
EnergyCost(c) == IF c.cost < 0 THEN 0 ELSE c.cost

\* the energy demand of a hand of h cards within a budget
Demand(cards, h, budget) ==
    SumOf([c \in {x \in Distinct(cards) :
                      /\ x.card_type \notin {"STATUS", "CURSE"}
                      /\ FLe(FInt(EnergyCost(x)), budget)}
            |-> FMul(ExpectedCopies(cards, c, h), FInt(EnergyCost(c)))])

\* C17: for hand_size >= 0 and a budget >= 0, energy_scale is
\* min(1, budget / demand), demand the sum over the distinct non-status,
\* non-curse cards with cost <= budget of (copies * hand_size / N) * cost,
\* and 1 when the demand is 0; the result lies in (0, 1].
C17_EnergyScale ==
    (/\ last.op = "energy_scale"
     /\ last.args.hand_size >= 0
     /\ FLe(Zero, last.budget)) =>
        LET demand == IF cards0 = <<>> THEN Zero
                      ELSE Demand(cards0, last.args.hand_size, last.budget)
        IN  /\ last.ret = IF demand = Zero THEN One
                          ELSE FMin(One, FDiv(last.budget, demand))
            /\ FLt(Zero, last.ret) /\ FLe(last.ret, One)

\* C17 witness: the starter deck, a hand of five and a budget of 3: the
\* demand is 5.5 and the scale 3 / 5.5 = 6/11.
C17_Witness ==
    /\ last.op = "energy_scale"
    /\ cards0 = StarterCards
    /\ last.args.hand_size = 5
    /\ last.budget = FInt(3)
    /\ last.ret = Frac(6, 11)

\* the budget the outputs are scaled for: energy + expected_bonus_energy
Budget(d, a) == FAdd(FInt(a.energy), ExpectedBonusEnergy(d, a.hand_size))

\* the value under key of the effects of c when it is a number, 0 otherwise
NumberOr0(c, key) ==
    IF key \in DOMAIN c.effects /\ IsNumber(c.effects[key])
    THEN Number(c.effects[key]) ELSE Zero

\* hits of an attack: 1 when missing or not an integer
Hits(c) ==
    IF "hits" \in DOMAIN c.effects /\ c.effects["hits"].kind = "int"
    THEN c.effects["hits"].num ELSE 1

\* C18: expected_damage_output is energy_scale(deck, hand_size,
\* energy + expected_bonus_energy) times the sum, over the distinct attack
\* cards with a numeric damage and cost <= energy, of
\* (copies * hand_size / N) * (damage + strength) * hits * vulnMult *
\* weakMult, hits 1 when missing or not an integer, each multiplier 1
\* unless its flag is set; the starter deck with a hand of five and 3
\* energy gives 19 * 3 / 5.5 = 114/11.
C18_ExpectedDamage ==
    (last.op = "expected_damage_output" /\ cards0 # <<>>) =>
        LET a == last.args
            vulnMult == IF a.vulnerable THEN a.vuln_multiplier ELSE One
            weakMult == IF a.weak THEN a.weak_multiplier ELSE One
            attacks == {c \in Distinct(cards0) :
                           /\ c.card_type = "ATTACK"
                           /\ "damage" \in DOMAIN c.effects =>
                                  IsNumber(c.effects["damage"])
                           /\ EnergyCost(c) <= a.energy}
            total == SumOf([c \in attacks |->
                        FMul(FMul(FMul(FMul(
                            ExpectedCopies(cards0, c, a.hand_size),
                            FAdd(NumberOr0(c, "damage"), FInt(a.strength))),
                            FInt(Hits(c))), vulnMult), weakMult)])
        IN  /\ last.ret =
                  FMul(EnergyScale(BaseDeck, a.hand_size, Budget(BaseDeck, a)),
                       total)
            /\ (/\ cards0 = StarterCards /\ a.hand_size = 5 /\ a.energy = 3
                /\ a.strength = 0 /\ ~a.vulnerable /\ ~a.weak)
                  => last.ret = Frac(114, 11)

\* C18 witness: the starter deck asked with a hand of five and 3 energy.
C18_Witness ==
    /\ last.op = "expected_damage_output"
    /\ cards0 = StarterCards
    /\ last.args.hand_size = 5 /\ last.args.energy = 3
    /\ last.args.strength = 0
    /\ ~last.args.vulnerable /\ ~last.args.weak
    /\ last.ret = Frac(114, 11)

\* C19: expected_block_output is energy_scale(deck, hand_size,
\* energy + expected_bonus_energy) times the sum, over the distinct cards
\* with a positive numeric block and cost <= energy, of
\* (copies * hand_size / N) * max(block + dexterity, 0).
C19_ExpectedBlock ==
    (last.op = "expected_block_output" /\ cards0 # <<>>) =>
        LET a == last.args
            blockers == {c \in Distinct(cards0) :
                            /\ FLt(Zero, NumberOr0(c, "block"))
                            /\ EnergyCost(c) <= a.energy}
            total == SumOf([c \in blockers |->
                        FMul(ExpectedCopies(cards0, c, a.hand_size),
                             LET block == FAdd(NumberOr0(c, "block"),
                                               FInt(a.dexterity))
                             IN  IF FLt(block, Zero) THEN Zero ELSE block)])
        IN  last.ret =
                FMul(EnergyScale(BaseDeck, a.hand_size, Budget(BaseDeck, a)),
                     total)

\* C19 witness: the starter deck, a hand of five, 3 energy and 2 dexterity:
\* 4 * 5 / 10 * (5 + 2) = 14, scaled by 6/11.
C19_Witness ==
    /\ last.op = "expected_block_output"
    /\ cards0 = StarterCards
    /\ last.args.hand_size = 5 /\ last.args.energy = 3
    /\ last.args.dexterity = 2
    /\ last.ret = Frac(84, 11)

\* C20: for hand_size >= 0 and energy >= 0, with any strength, dexterity
\* and flags, expected_damage_output and expected_block_output are not
\* negative.
C20_NonNegative ==
    (/\ last.op \in {"expected_damage_output", "expected_block_output"}
     /\ last.args.hand_size >= 0
     /\ last.args.energy >= 0) =>
        FLe(Zero, last.ret)

----------------------------------------------------------------------------
(* Malformed effects, the empty deck, failures, the sentinel cost (SpecEst) *)

\* the value under key of the effects of c is there and is a number
WellFormed(c, key) ==
    key \in DOMAIN c.effects /\ IsNumber(c.effects[key])

\* the scale of an output asked with the arguments a
ScaleOf(a) == EnergyScale(BaseDeck, a.hand_size, Budget(BaseDeck, a))

\* C21: a card whose damage (expected_damage_output), block
\* (expected_block_output) or energy (expected_bonus_energy) is missing or
\* not a number is skipped and adds nothing to the result, which is made of
\* the contributions of the other cards.
C21_MalformedSkipped ==
    cards0 # <<>> =>
        LET a == last.args
            vulnMult == IF a.vulnerable THEN a.vuln_multiplier ELSE One
            weakMult == IF a.weak THEN a.weak_multiplier ELSE One
            attacks == {c \in Distinct(cards0) :
                           /\ c.card_type = "ATTACK"
                           /\ WellFormed(c, "damage")
                           /\ EnergyCost(c) <= a.energy}
            blockers == {c \in Distinct(cards0) :
                            /\ WellFormed(c, "block")
                            /\ FLt(Zero, Number(c.effects["block"]))
                            /\ EnergyCost(c) <= a.energy}
            granters == {c \in Distinct(cards0) :
                            /\ c.card_type \notin {"STATUS", "CURSE"}
                            /\ WellFormed(c, "energy")
                            /\ FLt(Zero, Number(c.effects["energy"]))}
        IN  /\ last.op = "expected_damage_output" =>
                  last.ret = FMul(ScaleOf(a), SumOf([c \in attacks |->
                      FMul(FMul(FMul(FMul(
                          ExpectedCopies(cards0, c, a.hand_size),
                          FAdd(Number(c.effects["damage"]), FInt(a.strength))),
                          FInt(Hits(c))), vulnMult), weakMult)]))
            /\ last.op = "expected_block_output" =>
                  last.ret = FMul(ScaleOf(a), SumOf([c \in blockers |->
                      FMul(ExpectedCopies(cards0, c, a.hand_size),
                           FMax(FAdd(Number(c.effects["block"]),
                                     FInt(a.dexterity)), Zero))]))
            /\ last.op = "expected_bonus_energy" =>
                  last.ret = SumOf([c \in granters |->
                      FMul(ExpectedCopies(cards0, c, a.hand_size),
                           Number(c.effects["energy"]))])

\* C22: for the empty deck expected_bonus_energy, expected_damage_output
\* and expected_block_output return 0, energy_scale returns 1 and
\* draw_probability returns 0, whatever the other arguments are, and none
\* of them raises.
C22_EmptyDeck ==
    (cards0 = <<>> /\ last.op \in EstimatorNames) =>
        /\ ~last.raised
        /\ last.ret = IF last.op = "energy_scale" THEN One ELSE Zero

\* C22 witness: energy_scale asked about the empty deck with a budget of 0
\* and a negative hand size.
C22_Witness ==
    /\ cards0 = <<>>
    /\ last.op = "energy_scale"
    /\ last.args.hand_size = -1
    /\ last.budget = Zero
    /\ last.ret = One

\* C23: no estimator call ends in an exception, a negative draw_count or
\* hand_size included.
C23_NoFatalPath ==
    last.op \in EstimatorNames => ~last.raised

\* C26: expected_bonus_energy is the sum, over the distinct non-status,
\* non-curse cards with a positive numeric energy effect, of
\* (copies * hand_size / N) * energy; a zero, negative, missing or
\* non-numeric energy effect adds nothing.
C26_BonusEnergy ==
    (last.op = "expected_bonus_energy" /\ cards0 # <<>>) =>
        last.ret =
            SumOf([c \in {x \in Distinct(cards0) :
                             /\ x.card_type \notin {"STATUS", "CURSE"}
                             /\ FLt(Zero, NumberOr0(x, "energy"))}
                   |-> FMul(ExpectedCopies(cards0, c, last.args.hand_size),
                            NumberOr0(c, "energy"))])

\* C26 witness: Bloodletting and a Wound, a hand of two: only Bloodletting
\* counts, 1 * 2 / 2 * 2 = 2.
C26_Witness ==
    /\ last.op = "expected_bonus_energy"
    /\ cards0 = <<Bloodletting, Wound>>
    /\ last.args.hand_size = 2
    /\ last.ret = FInt(2)

\* the card with the sentinel cost replaced by a cost of 0
ZeroCost(c) == IF c.cost < 0 THEN [c EXCEPT !.cost = 0] ELSE c

ZeroCostPile(pile) == [i \in 1..Len(pile) |-> ZeroCost(pile[i])]

\* the deck with every sentinel cost replaced by a cost of 0
ZeroCostDeck(d) ==
    [draw_pile |-> ZeroCostPile(d.draw_pile),
     discard_pile |-> ZeroCostPile(d.discard_pile),
     hand |-> ZeroCostPile(d.hand)]

\* C30: for an energy >= 0, energy_scale, expected_damage_output and
\* expected_block_output treat a card of negative cost as a card of cost 0:
\* they return what they return for the deck with these costs set to 0, a
\* deck of such cards only has no energy demand (scale 1), and with 0
\* energy a Whirlwind alone gives its full (5 + strength) per copy and a
\* Skewer alone its full max(4 + dexterity, 0).
C30_SentinelCost ==
    LET a == last.args
        zero == ZeroCostDeck(BaseDeck)
        sentinelOnly == cards0 # <<>> /\ \A c \in Range(cards0) : c.cost < 0
    IN  /\ (last.op = "energy_scale" /\ FLe(Zero, last.budget)) =>
              /\ last.ret = EnergyScale(zero, a.hand_size, last.budget)
              /\ sentinelOnly => last.ret = One
        /\ (last.op = "expected_damage_output" /\ a.energy >= 0) =>
              /\ last.ret = ExpectedDamageOutput(zero, a)
              /\ (Range(cards0) = {Whirlwind} /\ ~a.vulnerable /\ ~a.weak) =>
                    last.ret = FInt(a.hand_size * (5 + a.strength))
        /\ (last.op = "expected_block_output" /\ a.energy >= 0) =>
              /\ last.ret = ExpectedBlockOutput(zero, a)
              /\ Range(cards0) = {Skewer} =>
                    last.ret = FInt(a.hand_size * (IF 4 + a.dexterity < 0
                                                   THEN 0 ELSE 4 + a.dexterity))

\* C30 witness: a Whirlwind alone, a hand of two and no energy: 2 * 5.
C30_Witness ==
    /\ last.op = "expected_damage_output"
    /\ cards0 = <<Whirlwind>>
    /\ last.args.hand_size = 2 /\ last.args.energy = 0
    /\ last.args.strength = 0
    /\ ~last.args.vulnerable /\ ~last.args.weak
    /\ last.ret = FInt(10)

----------------------------------------------------------------------------
(* SimulationResult.percentile and mean (SpecResult) *)

\* the percentiles summary() asks for
Pcts == {0, 25, 50, 75, 100}

\* how many of the values are below x, and how many are not above it
Below(v, x) == Cardinality({i \in 1..Len(v) : v[i] < x})

UpTo(v, x) == Cardinality({i \in 1..Len(v) : v[i] <= x})

\* the sum of the values of v that are in xs, value by value
RECURSIVE SumByValue(_, _)
SumByValue(v, xs) ==
    IF xs = {} THEN 0
    ELSE LET x == CHOOSE y \in xs : TRUE
         IN  x * Cardinality({i \in 1..Len(v) : v[i] = x})
                 + SumByValue(v, xs \ {x})

\* C25: percentile(key, pct), pct in {0, 25, 50, 75, 100}, is the element at
\* index min(floor(count * pct / 100), count - 1) of the recorded values in
\* ascending order, so the median of two values is the larger one, and 0
\* for a key without values; mean is the sum over the count, and 0 for a
\* key without values.
C25_Percentile ==
    \A k \in MetricNames :
        LET v == OutcomesGet(result, k)
            n == Len(v)
        IN  /\ k \in DOMAIN result.outcomes <=> v # <<>>
            /\ v = <<>> =>
                  /\ Mean(result, k) = [num |-> 0, den |-> 1]
                  /\ \A pct \in Pcts : Percentile(result, k, pct) = 0
            /\ v # <<>> =>
                  /\ Mean(result, k) = [num |-> SumByValue(v, Range(v)), den |-> n]
                  /\ \A pct \in Pcts :
                        LET idx == Min((n * pct) \div 100, n - 1)
                            p == Percentile(result, k, pct)
                        IN  /\ \E i \in 1..n : v[i] = p
                            /\ Below(v, p) <= idx
                            /\ idx < UpTo(v, p)
                  /\ n = 2 => Percentile(result, k, 50) =
                                 IF v[1] >= v[2] THEN v[1] ELSE v[2]

\* C25 witness: two values of one metric recorded in descending order, whose
\* median is the larger one and whose mean is their sum over 2, and another
\* metric without values.
C25_Witness ==
    LET v == OutcomesGet(result, "strikes")
    IN  /\ Len(v) = 2
        /\ v[1] > v[2]
        /\ Percentile(result, "strikes", 50) = v[1]
        /\ Mean(result, "strikes") = [num |-> v[1] + v[2], den |-> 2]
        /\ "has_bash" \notin DOMAIN result.outcomes
        /\ Percentile(result, "has_bash", 50) = 0

----------------------------------------------------------------------------
(* Reshuffles of one draw (SpecSteps) *)

\* C27: one draw(n) reshuffles at most once: after the pass that turned the
\* discard pile into the draw pile the discard pile stays empty for the
\* rest of the call, and when the draw pile is empty again the next step
\* leaves the loop and returns the cards drawn so far, however many passes
\* were left.
C27_OneReshuffle ==
    [][ /\ call'.refills <= 1
        /\ (call'.pc = "loop" /\ call'.refills = 1) =>
              BaseDeck'.discard_pile = <<>>
        /\ (call.pc = "loop" /\ call.refills = 1
                /\ BaseDeck.draw_pile = <<>>) =>
              /\ call'.pc = "idle"
              /\ last'.op = "draw" /\ ~last'.raised
              /\ last'.ret = call.drawn
              /\ BaseDeck'.hand = BaseDeck.hand \o call.drawn
              /\ BaseDeck'.draw_pile = <<>>
              /\ BaseDeck'.discard_pile = <<>> ]_vars

\* C27 witness: a draw that reshuffled has emptied the draw pile again with
\* passes left.
C27_Witness ==
    /\ call.pc = "loop"
    /\ call.refills = 1
    /\ call.left > 0
    /\ BaseDeck.draw_pile = <<>>
    /\ Len(call.drawn) >= 2

----------------------------------------------------------------------------
(* What next_turn leaves alone (Spec) *)

\* the fields of a GameState that next_turn does not assign
KeptFields ==
    {"hp", "max_hp", "max_energy", "gold", "strength", "dexterity", "focus",
     "mantra", "stance", "orbs", "relics", "potions", "character", "act",
     "floor", "ascension"}

\* C29: next_turn changes block, energy, turn and the piles of the deck
\* only: hp, max_hp, max_energy, gold, strength, dexterity, focus, mantra,
\* stance, orbs, relics, potions, character, act, floor and ascension keep
\* their values, the state keeps its Deck object, and the deck holds the
\* same cards, each as often as before.
C29_NextTurnFrame ==
    [][ last'.op = "next_turn" =>
           /\ DOMAIN base_state' = DOMAIN base_state
           /\ \A f \in KeptFields : base_state'[f] = base_state[f]
           /\ \A f \in DOMAIN base_state \ KeptFields :
                 f \in {"block", "energy", "turn", "deck", "orb_slots"}
           /\ base_state'.orb_slots = base_state.orb_slots
           /\ base_state'.deck = base_state.deck
           /\ \A r \in DOMAIN decks \ {base_state.deck} : decks'[r] = decks[r]
           /\ SameCards(CountedList(BaseDeck'), CountedList(BaseDeck)) ]_vars

\* C29 witness: a next_turn in mid-combat that changed block, energy, turn
\* and the piles, with strength, stance and relics other than the defaults.
C29_Witness ==
    /\ last.op = "next_turn"
    /\ base_state.turn = 2
    /\ base_state.block = 0
    /\ base_state.energy = 4
    /\ base_state.strength = 2
    /\ base_state.stance = "WRATH"
    /\ base_state.relics # <<>>
    /\ BaseDeck.hand # <<>>
    /\ BaseDeck.discard_pile # <<>>

----------------------------------------------------------------------------
(* The mean of a metric over every ordering of the draw pile (SpecMean) *)

\* cards of the deck whose opening hands are averaged
MaxMeanDeck == 3

MeanHandSizes == -1 .. (MaxMeanDeck + 1)

\* the metric of the scenario: how many cards of the hand equal the target
CopiesMetric == "copies"

\* the draw pile after state.deck.shuffle() came out in the ordering p
Ordered(cards, p) == [i \in 1..Len(cards) |-> cards[p[i]]]

\* One pass of Simulator.run for each ordering p of the draw pile of the
\* copy: the scenario calls next_turn(h) and returns the count of the
\* target in the hand.  The passes are the pairs of an ordering and an
\* outcome of next_turn; a pass whose scenario raises records nothing.
Passes(gs, cards, h) ==
    UNION { { <<p, o>> : o \in NextTurn(gs, NewDeck(Ordered(cards, p)), h) } :
              p \in Permutations(1..Len(cards)) }

\* result.record(metrics) for each of the passes
RECURSIVE RecordPasses(_, _, _)
RecordPasses(r, passes, target) ==
    IF passes = {} THEN r
    ELSE LET x == CHOOSE y \in passes : TRUE
             metrics == [k \in {CopiesMetric} |->
                            Cardinality({i \in 1..Len(x[2].deck.hand) :
                                            CardEq(x[2].deck.hand[i], target)})]
         IN  RecordPasses(IF x[2].raised THEN r ELSE Record(r, metrics),
                          passes \ {x}, target)

\* Simulator(base_state).run(scenario) with as many passes as the draw pile
\* has orderings, each ordering shuffled once
RunOverOrderings(sizes) ==
    /\ Idle
    /\ last.op = "none"
    /\ \E h \in sizes : \E target \in SimCards :
          /\ result' = RecordPasses(NewResult, Passes(base_state, cards0, h),
                                    target)
          /\ last' = Call("run", h, target, <<>>, FALSE, FALSE)
    /\ UNCHANGED <<cards0, decks, base_state, state, call, sim, returned,
                   played>>

\* A Simulator around a GameState whose deck is as constructed
InitMean ==
    /\ cards0 \in SeqsUpTo(SimCards, MaxMeanDeck)
    /\ decks = [base |-> NewDeck(cards0), clone |-> EmptyDeck]
    /\ base_state = NewGameState("base")
    /\ state = NoState
    /\ last = NoCall
    /\ call = CallIdle
    /\ sim = SimIdle
    /\ result = NewResult
    /\ returned = <<>>
    /\ played = NoTurns

NextMean == RunOverOrderings(MeanHandSizes)

\* the opening hand averaged over every ordering
SpecMean == InitMean /\ [][NextMean]_vars

RECURSIVE Factorial(_)
Factorial(n) == IF n <= 0 THEN 1 ELSE n * Factorial(n - 1)

\* C24 as stated: for every hand size the mean count of the target in the
\* hand after next_turn(hand_size), over all orderings of the draw pile of
\* a deck of N > 0 cards, is hand_size * copies / N.
C24_MeanAnyHandSize ==
    (last.op = "run" /\ cards0 # <<>>) =>
        LET mean == Mean(result, CopiesMetric)
        IN  mean.num * Len(cards0) =
                last.n * CopiesIn(cards0, last.card) * mean.den

\* C24: over all orderings of the draw pile of a deck of N > 0 cards, each
\* once, the mean count of the target in the hand after
\* next_turn(hand_size) is hand_size * copies / N for 0 <= hand_size <= N;
\* it is copies for hand_size > N, the whole deck being in the hand, and 0
\* for hand_size < 0.
C24_MeanOverOrderings ==
    (last.op = "run" /\ cards0 # <<>>) =>
        LET mean == Mean(result, CopiesMetric)
            N == Len(cards0)
            h == last.n
            copies == CopiesIn(cards0, last.card)
        IN  /\ mean.den = Factorial(N)
            /\ Len(OutcomesGet(result, CopiesMetric)) = Factorial(N)
            /\ (0 <= h /\ h <= N) => mean.num * N = h * copies * mean.den
            /\ h > N => mean.num = copies * mean.den
            /\ h < 0 => mean.num = 0

\* C24 witness: two Strikes and a Defend, a hand of two: the six orderings
\* hold 8 Strikes in their hands, 8/6 = 2 * 2 / 3.
C24_Witness ==
    /\ last.op = "run"
    /\ last.n = 2
    /\ last.card.name = "Strike"
    /\ Len(cards0) = 3
    /\ CopiesIn(cards0, last.card) = 2
    /\ Mean(result, CopiesMetric) = [num |-> 8, den |-> 6]

----------------------------------------------------------------------------
(* A combat followed turn by turn from a fresh deck (SpecTurns) *)

\* cards of the deck of a combat that is followed
MaxTurnDeck == 3

\* turns followed after every card has been in a hand
ExtraTurns == 1

\* physical cards, no two of them the same record; the first two are equal
\* as cards (same name and character)
TurnCards ==
    << [name |-> "Strike", character |-> "ironclad", cost |-> 1],
       [name |-> "Strike", character |-> "ironclad", cost |-> 0],
       [name |-> "Defend", character |-> "ironclad", cost |-> 1],
       [name |-> "Bash",   character |-> "ironclad", cost |-> 2],
       [name |-> "Strike", character |-> "silent",   cost |-> 1] >>

\* ceil(n / h) for h > 0
Ceil(n, h) == (n + h - 1) \div h

\* Deck.draw(n) on deck d reshuffles: a pass of its loop finds the draw
\* pile empty and the discard pile not
Reshuffles(d, n) == n > Len(d.draw_pile) /\ d.discard_pile # <<>>

\* the record of a turn: the hand next_turn dealt, how many of its cards
\* were drawn before a reshuffle, and whether the draw reshuffled
Turn(d, n, hand) ==
    [hand |-> hand, fresh |-> Min(Len(hand), Len(d.draw_pile)),
     reshuffled |-> Reshuffles(d, n)]

\* next_turn(hand_size) with the hand size of the combat
PlayTurn ==
    /\ Idle
    /\ played.hand_size > 0
    /\ base_state.turn < Ceil(Len(cards0), played.hand_size) + ExtraTurns
    /\ \E o \in NextTurn(base_state, BaseDeck, played.hand_size) :
          /\ decks' = [decks EXCEPT ![base_state.deck] = o.deck]
          /\ base_state' = o.gs
          /\ last' = Call("next_turn", played.hand_size, NoCard, o.ret,
                          FALSE, o.raised)
          /\ played' = [played EXCEPT !.turns =
                           Append(@, Turn(DiscardHand(BaseDeck),
                                          played.hand_size, o.ret))]
    /\ UNCHANGED <<cards0, state, call, sim, result, returned>>

\* A deck of N different cards, all in the draw pile in some order, and a
\* hand size of 1..N
InitTurns ==
    /\ \E n \in 1..MaxTurnDeck :
          /\ cards0 \in Shuffled(SubSeq(TurnCards, 1, n))
          /\ played \in {[hand_size |-> h, turns |-> <<>>] : h \in 1..n}
    /\ decks = [base |-> NewDeck(cards0), clone |-> EmptyDeck]
    /\ base_state = NewGameState("base")
    /\ state = NoState
    /\ last = NoCall
    /\ call = CallIdle
    /\ sim = SimIdle
    /\ result = NewResult
    /\ returned = <<>>

NextTurns == PlayTurn

\* next_turn(h) again and again on a fresh deck
SpecTurns == InitTurns /\ [][NextTurns]_vars

\* the turn of the first reshuffle, or the turn after the latest one
FirstReshuffle(turns) ==
    IF \E i \in 1..Len(turns) : turns[i].reshuffled
    THEN CHOOSE i \in 1..Len(turns) :
            /\ turns[i].reshuffled
            /\ \A j \in 1..(i - 1) : ~turns[j].reshuffled
    ELSE Len(turns) + 1

\* the cards that entered the hand of turn i before the first reshuffle
FreshHand(turns, i) ==
    IF i < FirstReshuffle(turns) THEN turns[i].hand
    ELSE IF i = FirstReshuffle(turns)
    THEN SubSeq(turns[i].hand, 1, turns[i].fresh)
    ELSE <<>>

\* C28: from a fresh deck of N cards and with next_turn(h), 1 <= h <= N,
\* called again and again, no card enters a hand twice before the first
\* reshuffle, no turn before turn ceil(N / h) reshuffles, and after
\* ceil(N / h) turns every card has been in a hand, whatever the orders of
\* the shuffles.
C28_EveryCardOnce ==
    played.hand_size > 0 =>
        LET T == played.turns
            N == Len(cards0)
            h == played.hand_size
        IN  /\ \A i, j \in 1..Len(T) :
                  \A a \in 1..Len(FreshHand(T, i)) :
                     \A b \in 1..Len(FreshHand(T, j)) :
                        FreshHand(T, i)[a] = FreshHand(T, j)[b] =>
                            (i = j /\ a = b)
            /\ \A i \in 1..Len(T) : T[i].reshuffled => i >= Ceil(N, h)
            /\ Len(T) >= Ceil(N, h) =>
                  \A c \in Range(cards0) :
                     \E i \in 1..Ceil(N, h) : c \in Range(T[i].hand)

\* C28 witness: three cards and hands of two: the second turn, turn
\* ceil(3 / 2), took the last card of the draw pile, reshuffled and dealt
\* a card of the first hand again.
C28_Witness ==
    /\ played.hand_size = 2
    /\ Len(cards0) = 3
    /\ Len(played.turns) = 2
    /\ played.turns[2].reshuffled
    /\ played.turns[2].fresh = 1
    /\ played.turns[2].hand[2] \in Range(played.turns[1].hand)

====
